---- MODULE Spec2Model ----
(***************************************************************************)
(* memguard: guarded, locked, canary-protected buffers.                    *)
(*                                                                         *)
(* Memory is a flat byte-addressed space of pages, each page carrying its  *)
(* protection, its mlock state and its no-dump advice.  The page helpers   *)
(* (roundToPageSize, getBytes, getAllMemory, wipeBytes, createCanary) and  *)
(* the memcall wrappers are translated from the sources.  The buffer       *)
(* operations (New, Destroy, Copy, Move, ...) are not part of the sources  *)
(* at hand; they follow sections 4.D-4.F of the specification.             *)
(*                                                                         *)
(* The specifications share the state:                                     *)
(*   Spec       a single caller, every API call run to completion;         *)
(*   SpecLayout the same with buffers of up to one byte more than a page;  *)
(*   SpecCanary package initialisation by either createCanary, on a small  *)
(*              and on a large page, then the single caller;               *)
(*   SpecFail   the single caller with platform failures;                  *)
(*   SpecRound  roundToPageSize over page sizes and lengths;               *)
(*   SpecConc   threads calling New, MarkAsReadOnly, Destroy, DestroyAll   *)
(*              and the finalizer, Destroy taken one memory operation at a *)
(*              time, with a fixture that overwrites the canary slot;      *)
(*   SpecLock   threads with every mutex acquisition a step of its own;    *)
(*   SpecSig    CatchInterrupt, the interrupt signal and the shutdown;     *)
(*   SpecTest   the goroutines of TestConcurrent.                          *)
(***************************************************************************)
EXTENDS Integers, Sequences, FiniteSets, TLC

VARIABLES
    pageSize,           \* os.Getpagesize(), read once
    vm,                 \* the process's virtual memory and its platform state
    canary,             \* slice describing the 32 canary bytes
    containers,         \* every container ever created, by creation index
    allLockedBuffers,   \* the registry: creation indexes, in append order
    ret,                \* what the latest API call received and returned
    threads,            \* each thread's stack of calls in progress
    history,            \* per container: the teardown steps executed on it
                        \* and whether its finalizer has run
    catchInterruptOnce, \* the sync.Once of CatchInterrupt
    allLockedBuffersMutex,  \* the thread holding the registry's mutex, or 0
    process             \* signal disposition, pending interrupts, the
                        \* shutdown goroutine and the exit code

vars == <<pageSize, vm, canary, containers, allLockedBuffers, ret,
          threads, history, catchInterruptOnce, process,
          allLockedBuffersMutex>>

----------------------------------------------------------------------------
(* Bounds *)

PageShift == 2      \* the page size is 2^PageShift bytes
MaxBufs == 2        \* containers created in one run
NThreads == 2       \* threads of the threaded specifications
IntBits == 10       \* width of Go's int in this model, sign bit included

(* Program constants *)

CanaryLen == 32

\* TestConcurrent: b, _ := New(4); b.Move([]byte("Test")); b.Copy([]byte("test"))
TestLen == 4
TestMoveSrc == <<84, 101, 115, 116>>
TestCopySrc == <<116, 101, 115, 116>>

\* The byte sequences callers pass: empty, shorter than, as long as and
\* longer than the buffers they meet.  The byte alternates with the length,
\* so that what one call wrote differs from what the next one writes.
Srcs == {<<>>, <<2>>, <<1, 1>>}
MaxLen == CHOOSE n \in {Len(q) : q \in Srcs} : \A q \in Srcs : Len(q) <= n

RECURSIVE Pow2(_)
Pow2(k) == IF k <= 0 THEN 1 ELSE 2 * Pow2(k - 1)

PageSize == Pow2(PageShift)

\* Address-space size: the canary region and MaxBufs regions of the largest
\* buffer, after an unmapped page 0 (so that address 0 is never valid).
CeilTo(x, p) == ((x + p - 1) \div p) * p
NPages == (2 + CeilTo(CanaryLen, PageSize) \div PageSize)
          + MaxBufs * (2 + CeilTo(MaxLen + CanaryLen, PageSize) \div PageSize)
Pages == 1 .. NPages
MaxAddr == (NPages + 1) * pageSize - 1
Addrs == pageSize .. MaxAddr

\* The two values the CSPRNG may return in this model.
CanarySeeds == {17, 201}
RECURSIVE CanaryBytes(_, _)
CanaryBytes(seed, n) ==
    IF n = 0 THEN <<>>
    ELSE Append(CanaryBytes(seed, n - 1), ((seed + 7 * n) % 255) + 1)
CanaryValue(seed) == CanaryBytes(seed, CanaryLen)

----------------------------------------------------------------------------
(* Integer helpers: Go's int is two's complement *)

Not(a) == -a - 1

RECURSIVE And(_, _)
And(a, b) ==
    IF a = 0 \/ b = 0 THEN 0
    ELSE IF a = -1 THEN b
    ELSE IF b = -1 THEN a
    ELSE (a % 2) * (b % 2) + 2 * And(a \div 2, b \div 2)

\* An arithmetic result as an int holds it: reduced modulo 2^IntBits into
\* MinInt .. MaxInt.
MaxInt == Pow2(IntBits - 1) - 1
MinInt == -Pow2(IntBits - 1)
Wrap(a) == ((a - MinInt) % Pow2(IntBits)) + MinInt

MinOf(S) == CHOOSE x \in S : \A y \in S : x <= y

\* n copies of x, as a tuple.
RECURSIVE Rep(_, _)
Rep(n, x) ==
    IF n <= 0 THEN <<>>
    ELSE IF n = 1 THEN <<x>>
    ELSE Rep(n \div 2, x) \o Rep(n - (n \div 2), x)

\* f with f[lo], ..., f[hi] set to x.
SetRange(f, lo, hi, x) ==
    IF lo > hi THEN f
    ELSE SubSeq(f, 1, lo - 1) \o Rep(hi - lo + 1, x) \o SubSeq(f, hi + 1, Len(f))

Lengths == -1 .. MaxLen           \* lengths asked of New
Offsets == -1 .. MaxLen           \* offsets asked of Trim
Sizes == 0 .. MaxLen              \* sizes asked of Trim

----------------------------------------------------------------------------
(* Slices: struct{addr, len, cap} with cap = len *)

NilSlice == [addr |-> 0, len |-> 0]

\* Variant: the slice header is given a length one short.
getBytesShort(ptr, len) == [addr |-> ptr, len |-> len - 1]

getBytes(ptr, len) == [addr |-> ptr, len |-> len]

\* memory[i:j]
Sub(s, i, j) == [addr |-> s.addr + i, len |-> j - i]

PagesOf(s) == {a \div pageSize : a \in s.addr .. (s.addr + s.len - 1)}

FirstPage(s) == s.addr \div pageSize
LastPage(s) == (s.addr + s.len - 1) \div pageSize

\* The bytes a slice describes.
Bytes(v, s) ==
    IF s.len <= 0 \/ s.addr \notin Addrs \/ (s.addr + s.len - 1) \notin Addrs
    THEN <<>>
    ELSE SubSeq(v.mem, s.addr, s.addr + s.len - 1)

\* Variant: the mask is applied without first adding pageSize - 1, so that
\* the length is rounded down.
roundDownToPageSize(length) == And(length, Not(pageSize - 1))

\* Variant: a whole page is added before masking.
roundToPageSizePlusPage(length) ==
    And(Wrap(length + pageSize), Not(pageSize - 1))

roundToPageSize(length) ==
    And(Wrap(length + (pageSize - 1)), Not(pageSize - 1))

----------------------------------------------------------------------------
(* memcall: the platform interface.  Every wrapper panics on failure; a    *)
(* panicked process executes nothing more.                                 *)

Fail(v, what) == [v EXCEPT !.panic = what]

Mapped(v, s) ==
    /\ s.len > 0
    /\ \A p \in PagesOf(s) : p \in Pages /\ v.prot[p] # "unmapped"

Aligned(s) == s.addr % pageSize = 0

\* mmap picks the address; the model takes the lowest free run of pages.
AllocAddr(v, n) ==
    LET k == (n + pageSize - 1) \div pageSize
        fits == {p \in Pages :
                    \A q \in p .. (p + k - 1) :
                        q \in Pages /\ v.prot[q] = "unmapped"}
    IN  IF n <= 0 \/ fits = {} THEN 0 ELSE MinOf(fits) * pageSize

Alloc(v, n) ==
    LET s == [addr |-> AllocAddr(v, n), len |-> n]
    IN  IF s.addr = 0 THEN Fail(v, "memcall.Alloc")
        ELSE [v EXCEPT
                !.prot = SetRange(@, FirstPage(s), LastPage(s), "RW"),
                !.mem = SetRange(@, FirstPage(s) * pageSize,
                                 (LastPage(s) + 1) * pageSize - 1, 0)]

Free(v, b) ==
    IF ~(Mapped(v, b) /\ Aligned(b)) THEN Fail(v, "memcall.Free")
    ELSE [v EXCEPT
            !.prot = SetRange(@, FirstPage(b), LastPage(b), "unmapped"),
            !.locked = @ \ PagesOf(b),
            !.nodump = @ \ PagesOf(b)]

\* Madvise(b, MADV_DONTDUMP), its failure ignored, then Mlock(b).
Lock(v, b) ==
    IF ~Mapped(v, b) THEN Fail(v, "memcall.Lock")
    ELSE [v EXCEPT !.nodump = @ \cup PagesOf(b), !.locked = @ \cup PagesOf(b)]

Unlock(v, b) ==
    IF ~Mapped(v, b) THEN Fail(v, "memcall.Unlock")
    ELSE [v EXCEPT !.locked = @ \ PagesOf(b)]

\* Variant: the read-and-write case is not told from the read-only case.
ProtOfNoWrite(read, write) ==
    IF read THEN "R" ELSE IF write THEN "W" ELSE "NONE"

ProtOf(read, write) ==
    IF read /\ write THEN "RW"
    ELSE IF read THEN "R"
    ELSE IF write THEN "W"
    ELSE "NONE"

\* Variant: the protection reaches the first page of the slice only.
ProtectFirstPage(v, b, read, write) ==
    IF ~(Mapped(v, b) /\ Aligned(b)) THEN Fail(v, "memcall.Protect")
    ELSE [v EXCEPT
            !.prot = SetRange(@, FirstPage(b), FirstPage(b), ProtOf(read, write))]

Protect(v, b, read, write) ==
    IF ~(Mapped(v, b) /\ Aligned(b)) THEN Fail(v, "memcall.Protect")
    ELSE [v EXCEPT
            !.prot = SetRange(@, FirstPage(b), LastPage(b), ProtOf(read, write))]

----------------------------------------------------------------------------
(* Byte access *)

Writable(v, a) == a \in Addrs /\ v.prot[a \div pageSize] \in {"RW", "W"}

\* Number of leading bytes of [addr, addr+n) that can be written.
WritableRun(v, addr, n) ==
    LET bad == {i \in 0 .. (n - 1) : ~Writable(v, addr + i)}
    IN  IF bad = {} THEN n ELSE MinOf(bad)

\* mem with bytes[i+1 .. k] stored at addr+i, ...
RECURSIVE StoreLoop(_, _, _, _, _)
StoreLoop(mem, addr, bytes, i, k) ==
    IF i >= k THEN mem
    ELSE StoreLoop([mem EXCEPT ![addr + i] = bytes[i + 1]], addr, bytes, i + 1, k)

\* Store bytes[1..] at addr, addr+1, ... in order; the first store to a page
\* without write permission faults.
Store(v, addr, bytes) ==
    LET k == WritableRun(v, addr, Len(bytes))
    IN  [v EXCEPT
            !.mem = StoreLoop(@, addr, bytes, 0, k),
            !.panic = IF k < Len(bytes) THEN "fault" ELSE @]

\* for i := 0; i < len(buf); i++ { buf[i] = 0 }
RECURSIVE wipeLoop(_, _)
wipeLoop(buf, i) ==
    IF i >= Len(buf) THEN buf
    ELSE wipeLoop([buf EXCEPT ![i + 1] = 0], i + 1)

\* Variant: the loop starts at index 1.
wipeBytesFromOne(buf) == wipeLoop(buf, 1)

\* Variant: the loop stops one element early.
wipeBytesButLast(buf) ==
    IF buf = <<>> THEN buf
    ELSE Append(wipeLoop(SubSeq(buf, 1, Len(buf) - 1), 0), buf[Len(buf)])

wipeBytes(buf) == wipeLoop(buf, 0)

\* rand.Read(b): b receives the bytes the CSPRNG returned; fewer than
\* len(b) come with an error, on which fillRandBytes panics.
fillRandBytes(v, b, random) ==
    IF Len(random) < b.len THEN Fail(v, "memguard.csprng")
    ELSE Store(v, b.addr, random)

----------------------------------------------------------------------------
(* Straight-line code over memory is a list of memory operations, run in   *)
(* order until one of them panics.                                         *)

MemOp(call, s, read, write, bytes) ==
    [call |-> call, s |-> s, read |-> read, write |-> write, bytes |-> bytes]

DoAlloc(n) == MemOp("Alloc", getBytes(0, n), TRUE, TRUE, <<>>)
DoFree(s) == MemOp("Free", s, FALSE, FALSE, <<>>)
DoLock(s) == MemOp("Lock", s, FALSE, FALSE, <<>>)
DoUnlock(s) == MemOp("Unlock", s, FALSE, FALSE, <<>>)
DoProtect(s, read, write) == MemOp("Protect", s, read, write, <<>>)
DoFill(s, random) == MemOp("fillRandBytes", s, FALSE, FALSE, random)
DoCopy(s, bytes) == MemOp("copy", s, FALSE, FALSE, bytes)
DoWipe(s) == MemOp("wipeBytes", s, FALSE, FALSE, <<>>)
DoCompare(s) == MemOp("compare", s, FALSE, FALSE, <<>>)

\* Section 4.D: the canary slot is compared byte for byte against K.
CanaryEqual(v, s) == Bytes(v, s) = Bytes(v, canary)

Effect(v, c) ==
    CASE c.call = "Alloc" -> Alloc(v, c.s.len)
      [] c.call = "Free" -> Free(v, c.s)
      [] c.call = "Lock" -> Lock(v, c.s)
      [] c.call = "Unlock" -> Unlock(v, c.s)
      [] c.call = "Protect" -> Protect(v, c.s, c.read, c.write)
      [] c.call = "fillRandBytes" -> fillRandBytes(v, c.s, c.bytes)
      [] c.call = "copy" -> Store(v, c.s.addr, c.bytes)
      [] c.call = "wipeBytes" -> Store(v, c.s.addr, wipeBytes(Bytes(v, c.s)))
      [] c.call = "compare" ->
            IF CanaryEqual(v, c.s) THEN v ELSE Fail(v, "SafePanic")
      [] OTHER -> v

\* One memory operation; vm.calls records the operations that were begun.
Exec(v, c) ==
    IF v.panic # "" THEN v
    ELSE [Effect(v, c) EXCEPT
            !.calls = Append(@, <<c.call, c.s.addr, c.s.len, ProtOf(c.read, c.write)>>)]

RECURSIVE Run(_, _)
Run(v, prog) ==
    IF prog = <<>> THEN v ELSE Run(Exec(v, Head(prog)), Tail(prog))

Fresh(v) == [v EXCEPT !.calls = <<>>]

----------------------------------------------------------------------------
(* The canary *)

CanaryRegion(v) ==
    [addr |-> AllocAddr(v, (2 * pageSize) + roundToPageSize(CanaryLen)),
     len |-> (2 * pageSize) + roundToPageSize(CanaryLen)]

\* Variant: the first 32 bytes of the inner pages.
CanarySliceFirstBytes(v) ==
    getBytes(CanaryRegion(v).addr + pageSize, CanaryLen)

\* The slice createCanary returns.
CanarySlice(v) ==
    LET roundedLen == roundToPageSize(CanaryLen)
        memory == CanaryRegion(v)
    IN  getBytes(memory.addr + pageSize + roundedLen - CanaryLen, CanaryLen)

\* The body of createCanary.
createCanary(v, random) ==
    LET roundedLen == roundToPageSize(CanaryLen)
        totalLen == (2 * pageSize) + roundedLen
        memory == CanaryRegion(v)
    IN  << DoAlloc(totalLen),
           DoLock(Sub(memory, pageSize, pageSize + roundedLen)),
           DoProtect(Sub(memory, 0, pageSize), FALSE, FALSE),
           DoProtect(Sub(memory, pageSize + roundedLen, totalLen), FALSE, FALSE),
           DoFill(CanarySlice(v), random),
           DoProtect(Sub(memory, pageSize, pageSize + roundedLen), TRUE, FALSE) >>

\* The body of createCanary in src/unnamed/part_000: the guard pages are
\* made inaccessible before the inner pages are locked.  Its error branches
\* (SafePanic) are not taken: on the empty address space of a starting
\* process no platform call of it fails.
createCanaryUnnamed(v, random) ==
    LET roundedLen == roundToPageSize(CanaryLen)
        totalLen == (2 * pageSize) + roundedLen
        memory == CanaryRegion(v)
    IN  << DoAlloc(totalLen),
           DoProtect(Sub(memory, 0, pageSize), FALSE, FALSE),
           DoProtect(Sub(memory, pageSize + roundedLen, totalLen), FALSE, FALSE),
           DoLock(Sub(memory, pageSize, pageSize + roundedLen)),
           DoFill(CanarySlice(v), random),
           DoProtect(Sub(memory, pageSize, pageSize + roundedLen), TRUE, FALSE) >>

EmptyVm ==
    [mem |-> Rep(MaxAddr, 0),
     prot |-> Rep(NPages, "unmapped"),
     locked |-> {},
     nodump |-> {},
     calls |-> <<>>,
     panic |-> ""]

----------------------------------------------------------------------------
(* Containers and their guarded regions *)

ErrNone == "nil"
ErrInvalidLength == "ErrInvalidLength"
ErrReadOnly == "ErrReadOnly"
ErrDestroyed == "ErrDestroyed"

\* Variant: the embedded mutex excludes nobody.
MuNeverHeld(b) == TRUE

\* The container's embedded sync.Mutex can be acquired.
MuFree(b) == b.mu = 0

\* container{Mutex, buffer, readOnly, destroyed}; mu is the thread holding
\* the embedded mutex, 0 when it is free.
NewContainer(buffer) ==
    [buffer |-> buffer, readOnly |-> FALSE, destroyed |-> FALSE, mu |-> 0]

\* &b.buffer[0] of an empty slice panics in Go; the nil slice returned here
\* makes the platform call that receives it fail.
\* Variant: the front guard page is left out of the pointer arithmetic.
getAllMemoryNoGuard(b) ==
    LET bufLen == b.buffer.len
        roundedBufLen == roundToPageSize(b.buffer.len + CanaryLen)
        memAddr == b.buffer.addr - (roundedBufLen - bufLen)
        memLen == (pageSize * 2) + roundedBufLen
    IN  IF bufLen = 0 THEN NilSlice ELSE [addr |-> memAddr, len |-> memLen]

\* Variant: only one guard page is counted in the length.
getAllMemoryOneGuard(b) ==
    LET bufLen == b.buffer.len
        roundedBufLen == roundToPageSize(b.buffer.len + CanaryLen)
        memAddr == b.buffer.addr - ((roundedBufLen - bufLen) + pageSize)
        memLen == pageSize + roundedBufLen
    IN  IF bufLen = 0 THEN NilSlice ELSE [addr |-> memAddr, len |-> memLen]

\* Variant: the buffer's own length is not taken off the rounded length.
getAllMemoryWholeRounded(b) ==
    LET bufLen == b.buffer.len
        roundedBufLen == roundToPageSize(b.buffer.len + CanaryLen)
        memAddr == b.buffer.addr - (roundedBufLen + pageSize)
        memLen == (pageSize * 2) + roundedBufLen
    IN  IF bufLen = 0 THEN NilSlice ELSE getBytes(memAddr, memLen)

getAllMemory(b) ==
    LET bufLen == b.buffer.len
        roundedBufLen == roundToPageSize(b.buffer.len + CanaryLen)
        memAddr == b.buffer.addr - ((roundedBufLen - bufLen) + pageSize)
        memLen == (pageSize * 2) + roundedBufLen
    IN  IF bufLen = 0 THEN NilSlice ELSE getBytes(memAddr, memLen)

InnerPages(b) ==
    LET memory == getAllMemory(b)
    IN  IF memory.len = 0 THEN NilSlice
        ELSE Sub(memory, pageSize, memory.len - pageSize)

CanarySlot(b) == getBytes(b.buffer.addr - CanaryLen, CanaryLen)

Data(v, b) == Bytes(v, b.buffer)

\* Section 4.D Create, step 7: the data slice of a new buffer of n bytes.
NewBuffer(v, n) ==
    LET inner == roundToPageSize(n + CanaryLen)
        base == AllocAddr(v, (2 * pageSize) + inner)
    IN  getBytes(base + pageSize + inner - n, n)

\* Section 4.D Create, steps 2-6.
CreateRegion(v, n) ==
    LET inner == roundToPageSize(n + CanaryLen)
        total == (2 * pageSize) + inner
        memory == [addr |-> AllocAddr(v, total), len |-> total]
    IN  << DoAlloc(total),
           DoLock(Sub(memory, pageSize, pageSize + inner)),
           DoProtect(Sub(memory, 0, pageSize), FALSE, FALSE),
           DoProtect(Sub(memory, pageSize + inner, total), FALSE, FALSE),
           DoCopy(getBytes(NewBuffer(v, n).addr - CanaryLen, CanaryLen),
                  Bytes(v, canary)) >>

\* Copy: min(len(data), len(src)) bytes of src into data.
MinLen(a, b) == IF a < b THEN a ELSE b

CopyInto(buffer, src) ==
    << DoCopy(buffer, SubSeq(src, 1, MinLen(buffer.len, Len(src)))) >>

MarkReadOnly(b) == << DoProtect(InnerPages(b), TRUE, FALSE) >>
MarkReadWrite(b) == << DoProtect(InnerPages(b), TRUE, TRUE) >>

\* Section 4.D Destroy: the teardown body of a live container.
Teardown(b) ==
    << DoProtect(InnerPages(b), TRUE, TRUE),
       DoCompare(CanarySlot(b)),
       DoWipe(CanarySlot(b)),
       DoWipe(b.buffer),
       DoUnlock(InnerPages(b)),
       DoProtect(getAllMemory(b), TRUE, TRUE),
       DoFree(getAllMemory(b)) >>

MarkDestroyed(b) ==
    [b EXCEPT !.destroyed = TRUE, !.buffer = NilSlice, !.readOnly = FALSE]

\* Variant: the read-only flag is not consulted.
StateErrIgnoresReadOnly(b, writes) ==
    IF b.destroyed THEN ErrDestroyed ELSE ErrNone

\* The error an operation other than Destroy returns before acting.
StateErr(b, writes) ==
    IF b.destroyed THEN ErrDestroyed
    ELSE IF writes /\ b.readOnly THEN ErrReadOnly
    ELSE ErrNone

\* Constant-time comparison: unequal lengths differ; otherwise every byte
\* pair is visited and the differences accumulated.
RECURSIVE compareLoop(_, _, _, _)
compareLoop(x, y, i, diff) ==
    IF i > Len(x) THEN diff
    ELSE compareLoop(x, y, i + 1, diff \/ (x[i] # y[i]))

\* Variant: only the common prefix is compared.
ComparePrefix(x, y) ==
    \A k \in 1 .. (IF Len(x) < Len(y) THEN Len(x) ELSE Len(y)) : x[k] = y[k]

ConstantTimeCompare(x, y) ==
    IF Len(x) # Len(y) THEN FALSE ELSE ~compareLoop(x, y, 1, FALSE)

TrimErr(b, offset, size) ==
    IF b.destroyed THEN ErrDestroyed
    ELSE IF offset < 0 \/ size < 1 \/ offset + size > b.buffer.len
        THEN ErrInvalidLength
    ELSE ErrNone

\* Variant: the oldest entry is removed, whichever it is.
RemoveOldest(reg, i) == IF reg = <<>> THEN reg ELSE Tail(reg)

Remove(reg, i) == SelectSeq(reg, LAMBDA x : x # i)

Threads == 1 .. NThreads

----------------------------------------------------------------------------
(* A single caller: every API call runs to completion *)

\* The package is initialised (the canary exists), has not panicked, and
\* the caller holds no result it has yet to take.
Running == canary.len > 0 /\ vm.panic = "" /\ ret.op = "idle"

\* ret is the call the caller made last and what it gave back: the buffer it
\* addressed or made (b), the error (err), the argument as passed (arg) and
\* the result (out; for Move and WipeBytes the argument slice afterwards).
\* If vm.panic is set the call did not return.
Returned(op, b, err, arg, out) ==
    [op |-> op, b |-> b, err |-> err, arg |-> arg, out |-> out]

Idle == Returned("idle", 0, ErrNone, <<>>, <<>>)

\* var catchInterruptOnce sync.Once: not done, its mutex free (m is the
\* thread inside Do, 0 when there is none).
NewOnce == [done |-> FALSE, m |-> 0]

\* A process as the runtime starts it: no handler for the interrupt signal
\* (notify is the function CatchInterrupt installed, 0 for none), no signal
\* pending, no shutdown goroutine, not exited (exit is the exit code, -1
\* while the process runs).  log lists what CatchInterrupt and the shutdown
\* did, in order.
NewProcess ==
    [notify |-> 0, pending |-> 0, shutdown |-> "none", exit |-> -1, log |-> <<>>]

Bufs == 1 .. Len(containers)

\* The process as it starts, before the package variables are initialised.
Init ==
    /\ pageSize = PageSize
    /\ vm = EmptyVm
    /\ canary = NilSlice
    /\ containers = <<>>
    /\ allLockedBuffers = <<>>
    /\ ret = Idle
    /\ threads = [t \in Threads |-> <<>>]
    /\ history = <<>>
    /\ catchInterruptOnce = NewOnce
    /\ process = NewProcess
    /\ allLockedBuffersMutex = 0

\* Package initialisation: canary = createCanary(), the CSPRNG returning
\* one of the values of `seeds`.
InitCanary(seeds) ==
    /\ canary.len = 0 /\ vm.panic = ""
    /\ \E seed \in seeds :
          vm' = Run(Fresh(vm), createCanary(vm, CanaryValue(seed)))
    /\ canary' = CanarySlice(vm)

\* The single caller's operations never read the canary's byte values except
\* to copy and to compare them, so one value stands for all here.
PackageInit ==
    /\ ret.op = "idle"
    /\ InitCanary({MinOf(CanarySeeds)})
    /\ ret' = Returned("init", 0, ErrNone, <<>>, <<>>)
    /\ UNCHANGED <<threads, history, catchInterruptOnce, process,
                   allLockedBuffersMutex, pageSize, containers, allLockedBuffers>>

\* Create, steps 8-10, once the region stands: register and return the
\* container.  A platform panic leaves no container behind.
Register(buffer, readOnly) ==
    IF vm'.panic # ""
    THEN UNCHANGED <<containers, allLockedBuffers>>
    ELSE /\ containers' = Append(containers,
                                 [NewContainer(buffer) EXCEPT !.readOnly = readOnly])
         /\ allLockedBuffers' = Append(allLockedBuffers, Len(containers) + 1)

New(n) ==
    /\ Running
    /\ n > 0 => Len(containers) < MaxBufs
    /\ IF n < 1
       THEN /\ vm' = Fresh(vm)
            /\ UNCHANGED <<containers, allLockedBuffers>>
            /\ ret' = Returned("New", 0, ErrInvalidLength, n, <<>>)
       ELSE /\ vm' = Run(Fresh(vm), CreateRegion(vm, n))
            /\ Register(NewBuffer(vm, n), FALSE)
            /\ ret' = Returned("New", Len(containers) + 1, ErrNone, n, <<>>)
    /\ UNCHANGED <<threads, history, catchInterruptOnce, process,
                   allLockedBuffersMutex, pageSize, canary>>

NewFromBytes(src) ==
    /\ Running
    /\ Len(src) > 0 => Len(containers) < MaxBufs
    /\ IF Len(src) < 1
       THEN /\ vm' = Fresh(vm)
            /\ UNCHANGED <<containers, allLockedBuffers>>
            /\ ret' = Returned("NewFromBytes", 0, ErrInvalidLength, src, <<>>)
       ELSE /\ vm' = Run(Fresh(vm), CreateRegion(vm, Len(src))
                                    \o CopyInto(NewBuffer(vm, Len(src)), src))
            /\ Register(NewBuffer(vm, Len(src)), FALSE)
            /\ ret' = Returned("NewFromBytes", Len(containers) + 1, ErrNone, src, <<>>)
    /\ UNCHANGED <<threads, history, catchInterruptOnce, process,
                   allLockedBuffersMutex, pageSize, canary>>

Copy(i, src) ==
    /\ Running
    /\ LET b == containers[i]
           err == StateErr(b, TRUE)
       IN  /\ vm' = Run(Fresh(vm), IF err # ErrNone THEN <<>> ELSE CopyInto(b.buffer, src))
           /\ ret' = Returned("Copy", i, err, src, src)
    /\ UNCHANGED <<threads, history, catchInterruptOnce, process,
                   allLockedBuffersMutex, pageSize, canary, containers, allLockedBuffers>>

Move(i, src) ==
    /\ Running
    /\ LET b == containers[i]
           err == StateErr(b, TRUE)
       IN  /\ vm' = Run(Fresh(vm), IF err # ErrNone THEN <<>> ELSE CopyInto(b.buffer, src))
           /\ ret' = Returned("Move", i, err, src,
                              IF err # ErrNone THEN src ELSE wipeBytes(src))
    /\ UNCHANGED <<threads, history, catchInterruptOnce, process,
                   allLockedBuffersMutex, pageSize, canary, containers, allLockedBuffers>>

EqualTo(i, other) ==
    /\ Running
    /\ LET b == containers[i]
           err == StateErr(b, FALSE)
       IN  ret' = Returned("EqualTo", i, err, other,
                           IF err # ErrNone THEN FALSE
                           ELSE ConstantTimeCompare(Data(vm, b), other))
    /\ vm' = Fresh(vm)
    /\ UNCHANGED <<threads, history, catchInterruptOnce, process,
                   allLockedBuffersMutex, pageSize, canary, containers, allLockedBuffers>>

MarkAsReadOnly(i) ==
    /\ Running
    /\ LET b == containers[i]
           err == StateErr(b, FALSE)
           acts == err = ErrNone /\ ~b.readOnly
       IN  /\ vm' = Run(Fresh(vm), IF acts THEN MarkReadOnly(b) ELSE <<>>)
           /\ containers' = IF acts /\ vm'.panic = ""
                            THEN [containers EXCEPT ![i].readOnly = TRUE]
                            ELSE containers
           /\ ret' = Returned("MarkAsReadOnly", i, err, <<>>, <<>>)
    /\ UNCHANGED <<threads, history, catchInterruptOnce, process,
                   allLockedBuffersMutex, pageSize, canary, allLockedBuffers>>

MarkAsReadWrite(i) ==
    /\ Running
    /\ LET b == containers[i]
           err == StateErr(b, FALSE)
           acts == err = ErrNone /\ b.readOnly
       IN  /\ vm' = Run(Fresh(vm), IF acts THEN MarkReadWrite(b) ELSE <<>>)
           /\ containers' = IF acts /\ vm'.panic = ""
                            THEN [containers EXCEPT ![i].readOnly = FALSE]
                            ELSE containers
           /\ ret' = Returned("MarkAsReadWrite", i, err, <<>>, <<>>)
    /\ UNCHANGED <<threads, history, catchInterruptOnce, process,
                   allLockedBuffersMutex, pageSize, canary, allLockedBuffers>>

\* The new buffer is filled while writable and then given the source's
\* protection.
Trim(i, offset, size) ==
    /\ Running
    /\ LET b == containers[i]
           err == TrimErr(b, offset, size)
           fresh == NewBuffer(vm, size)
           part == SubSeq(Data(vm, b), offset + 1, offset + size)
       IN  /\ err = ErrNone => Len(containers) < MaxBufs
           /\ IF err # ErrNone
              THEN /\ vm' = Fresh(vm)
                   /\ UNCHANGED <<containers, allLockedBuffers>>
                   /\ ret' = Returned("Trim", 0, err, <<i, offset, size>>, <<>>)
              ELSE /\ vm' = Run(Fresh(vm),
                                CreateRegion(vm, size) \o CopyInto(fresh, part)
                                \o (IF b.readOnly
                                    THEN MarkReadOnly(NewContainer(fresh))
                                    ELSE <<>>))
                   /\ Register(fresh, b.readOnly)
                   /\ ret' = Returned("Trim", Len(containers) + 1, err,
                                      <<i, offset, size>>, <<>>)
    /\ UNCHANGED <<threads, history, catchInterruptOnce, process,
                   allLockedBuffersMutex, pageSize, canary>>

\* Destroy run to completion.  No call of this specification writes the
\* canary slot; the path a mismatch takes (SafePanic) is followed step by
\* step in the threaded specification.
Destroy(i) ==
    /\ Running
    /\ LET b == containers[i]
       IN  /\ vm' = Run(Fresh(vm), IF b.destroyed THEN <<>> ELSE Teardown(b))
           /\ IF vm'.panic # ""
              THEN UNCHANGED <<containers, allLockedBuffers>>
              ELSE /\ containers' = [containers EXCEPT ![i] = MarkDestroyed(b)]
                   /\ allLockedBuffers' = Remove(allLockedBuffers, i)
    /\ ret' = Returned("Destroy", i, ErrNone, <<>>, <<>>)
    /\ UNCHANGED <<threads, history, catchInterruptOnce, process,
                   allLockedBuffersMutex, pageSize, canary>>

\* The teardown bodies DestroyAll runs: those of the snapshot's live entries.
RECURSIVE TeardownEach(_)
TeardownEach(snapshot) ==
    IF snapshot = <<>> THEN <<>>
    ELSE (IF containers[Head(snapshot)].destroyed THEN <<>>
          ELSE Teardown(containers[Head(snapshot)]))
         \o TeardownEach(Tail(snapshot))

InSeq(x, q) == \E k \in 1 .. Len(q) : q[k] = x

DestroyAll ==
    /\ Running
    /\ vm' = Run(Fresh(vm), TeardownEach(allLockedBuffers))
    /\ IF vm'.panic # ""
       THEN UNCHANGED <<containers, allLockedBuffers>>
       ELSE /\ containers' = [i \in 1 .. Len(containers) |->
                                IF InSeq(i, allLockedBuffers)
                                THEN MarkDestroyed(containers[i])
                                ELSE containers[i]]
            /\ allLockedBuffers' = <<>>
    /\ ret' = Returned("DestroyAll", 0, ErrNone, allLockedBuffers,
                       [k \in 1 .. Len(allLockedBuffers) |->
                           containers[allLockedBuffers[k]].readOnly])
    /\ UNCHANGED <<threads, history, catchInterruptOnce, process,
                   allLockedBuffersMutex, pageSize, canary>>

WipeBytes(src) ==
    /\ Running
    /\ vm' = Fresh(vm)
    /\ ret' = Returned("WipeBytes", 0, ErrNone, src, wipeBytes(src))
    /\ UNCHANGED <<threads, history, catchInterruptOnce, process,
                   allLockedBuffersMutex, pageSize, canary, containers, allLockedBuffers>>

\* The caller takes the result of the call it made.
Return ==
    /\ ret.op # "idle"
    /\ ret' = Idle
    /\ UNCHANGED <<threads, history, catchInterruptOnce, process,
                   allLockedBuffersMutex, pageSize, vm, canary, containers, allLockedBuffers>>

Next ==
    \/ PackageInit
    \/ Return
    \/ \E n \in Lengths : New(n)
    \/ \E src \in Srcs : NewFromBytes(src)
    \/ \E i \in Bufs, src \in Srcs : Copy(i, src)
    \/ \E i \in Bufs, src \in Srcs : Move(i, src)
    \/ \E i \in Bufs, other \in Srcs : EqualTo(i, other)
    \/ \E i \in Bufs : MarkAsReadOnly(i)
    \/ \E i \in Bufs : MarkAsReadWrite(i)
    \/ \E i \in Bufs, offset \in Offsets, size \in Sizes : Trim(i, offset, size)
    \/ \E i \in Bufs : Destroy(i)
    \/ DestroyAll
    \/ \E src \in Srcs : WipeBytes(src)

Spec == Init /\ [][Next]_vars

----------------------------------------------------------------------------
(* Layout: the single caller with buffers of every length from one byte to *)
(* one more than a page, so that n + 32 falls below, on and above a        *)
(* multiple of the page size.  A New that finds no room panics in          *)
(* memcall.Alloc.                                                          *)

LayoutLengths == 1 .. (PageSize + 1)

NextLayout ==
    \/ PackageInit
    \/ Return
    \/ \E n \in LayoutLengths : New(n)
    \/ \E i \in Bufs, src \in Srcs : Copy(i, src)
    \/ \E i \in Bufs : MarkAsReadOnly(i)
    \/ \E i \in Bufs : MarkAsReadWrite(i)
    \/ \E i \in Bufs, offset \in 0 .. 1, size \in LayoutLengths :
          Trim(i, offset, size)
    \/ \E i \in Bufs : Destroy(i)
    \/ DestroyAll

SpecLayout == Init /\ [][NextLayout]_vars

----------------------------------------------------------------------------
(* The canary service: the package initialised by either createCanary, on  *)
(* a page size smaller than the canary and on one larger than it (where    *)
(* the canary is a proper part of its page), followed by the single        *)
(* caller's operations.                                                    *)

CanaryPageSizes == {PageSize, Pow2(PageShift + 4)}

InitCanaryPages ==
    /\ pageSize \in CanaryPageSizes
    /\ vm = EmptyVm
    /\ canary = NilSlice
    /\ containers = <<>>
    /\ allLockedBuffers = <<>>
    /\ ret = Idle
    /\ threads = [t \in Threads |-> <<>>]
    /\ history = <<>>
    /\ catchInterruptOnce = NewOnce
    /\ process = NewProcess
    /\ allLockedBuffersMutex = 0

\* Package initialisation of src/unnamed/part_000: canary = createCanary().
PackageInitUnnamed ==
    /\ ret.op = "idle"
    /\ canary.len = 0 /\ vm.panic = ""
    /\ \E seed \in CanarySeeds :
          vm' = Run(Fresh(vm), createCanaryUnnamed(vm, CanaryValue(seed)))
    /\ canary' = CanarySlice(vm)
    /\ ret' = Returned("init", 0, ErrNone, <<>>, <<>>)
    /\ UNCHANGED <<threads, history, catchInterruptOnce, process,
                   allLockedBuffersMutex, pageSize, containers, allLockedBuffers>>

NextCanary ==
    \/ PackageInit
    \/ PackageInitUnnamed
    \/ Return
    \/ \E n \in 1 .. MaxLen : New(n)
    \/ \E i \in Bufs, src \in Srcs : Copy(i, src)
    \/ \E i \in Bufs : MarkAsReadOnly(i)
    \/ \E i \in Bufs : MarkAsReadWrite(i)
    \/ \E i \in Bufs : Destroy(i)
    \/ DestroyAll

SpecCanary == InitCanaryPages /\ [][NextCanary]_vars

----------------------------------------------------------------------------
(* The single caller, with the failures the platform can produce: an       *)
(* address space that has no room for one more region, and a CSPRNG that   *)
(* returns an error.                                                       *)

\* New(n) when mmap finds no room: memcall.Alloc panics.
NewNoMemory(n) ==
    /\ Running
    /\ AllocAddr(vm, (2 * pageSize) + roundToPageSize(n + CanaryLen)) = 0
    /\ vm' = Run(Fresh(vm), CreateRegion(vm, n))
    /\ Register(NewBuffer(vm, n), FALSE)
    /\ ret' = Returned("New", 0, ErrNone, n, <<>>)
    /\ UNCHANGED <<threads, history, catchInterruptOnce, process,
                   allLockedBuffersMutex, pageSize, canary>>

\* canary = createCanary() when rand.Read returns an error.
PackageInitNoRandom ==
    /\ ret.op = "idle"
    /\ canary.len = 0 /\ vm.panic = ""
    /\ vm' = Run(Fresh(vm), createCanary(vm, <<>>))
    /\ ret' = Returned("init", 0, ErrNone, <<>>, <<>>)
    /\ UNCHANGED <<threads, history, catchInterruptOnce, process,
                   allLockedBuffersMutex, pageSize, canary,
                   containers, allLockedBuffers>>

NextFail ==
    \/ Next
    \/ \E n \in 1 .. MaxLen : NewNoMemory(n)
    \/ PackageInitNoRandom

SpecFail == Init /\ [][NextFail]_vars

----------------------------------------------------------------------------
(* Threads.  A thread is a stack of frames, the innermost call last.  A    *)
(* frame is the call (op), the container it works on (b), its position     *)
(* (pc), what it has left to do (todo) and who made the call (by).         *)

Frame(op, b, pc, todo, by) ==
    [op |-> op, b |-> b, pc |-> pc, todo |-> todo, by |-> by]

Depth(t) == Len(threads[t])
Top(t) == threads[t][Depth(t)]
IsIdle(t) == threads[t] = <<>>
At(t, op, pc) == ~IsIdle(t) /\ Top(t).op = op /\ Top(t).pc = pc

Call(t, f) == threads' = [threads EXCEPT ![t] = Append(@, f)]
Goto(t, f) == threads' = [threads EXCEPT ![t][Depth(t)] = f]
GotoAndCall(t, f, g) ==
    threads' = [threads EXCEPT ![t] = Append([@ EXCEPT ![Depth(t)] = f], g)]
ReturnFrom(t) == threads' = [threads EXCEPT ![t] = SubSeq(@, 1, Depth(t) - 1)]

\* The package is initialised and the process has not stopped.
Alive == canary.len > 0 /\ vm.panic = ""

NoHistory == [calls |-> <<>>, finalized |-> FALSE]

\* The 32 bytes before a container's data, and the 32 bytes of the canary.
SlotBytes(v, b) == SubSeq(v.mem, b.buffer.addr - CanaryLen, b.buffer.addr - 1)
K(v) == SubSeq(v.mem, canary.addr, canary.addr + CanaryLen - 1)

\* Package initialisation with either CSPRNG value.
LoadPackage ==
    /\ InitCanary(CanarySeeds)
    /\ UNCHANGED <<catchInterruptOnce, process,
                   allLockedBuffersMutex, pageSize, containers, allLockedBuffers, ret, threads, history>>

----------------------------------------------------------------------------
(* Threads creating, marking, corrupting and destroying buffers.  New and  *)
(* MarkAsReadOnly touch what no other thread can reach while they run (a   *)
(* region not yet registered, pages under the container's mutex), and the  *)
(* registry is only touched under its mutex: these are taken in one step.  *)
(* Destroy and DestroyAll are taken step by step.                          *)

GoNew(t, n) ==
    /\ Alive /\ IsIdle(t)
    /\ Len(containers) < MaxBufs
    /\ vm' = Run(Fresh(vm), CreateRegion(vm, n))
    /\ Register(NewBuffer(vm, n), FALSE)
    /\ history' = IF vm'.panic # "" THEN history ELSE Append(history, NoHistory)
    /\ UNCHANGED <<catchInterruptOnce, process,
                   allLockedBuffersMutex, pageSize, canary, ret, threads>>

GoMarkAsReadOnly(t, i) ==
    /\ Alive /\ IsIdle(t)
    /\ MuFree(containers[i])
    /\ StateErr(containers[i], FALSE) = ErrNone
    /\ ~containers[i].readOnly
    /\ vm' = Run(Fresh(vm), MarkReadOnly(containers[i]))
    /\ containers' = IF vm'.panic = ""
                     THEN [containers EXCEPT ![i].readOnly = TRUE]
                     ELSE containers
    /\ UNCHANGED <<catchInterruptOnce, process,
                   allLockedBuffersMutex, pageSize, canary, allLockedBuffers, ret, threads, history>>

\* The fixture of section 8, item 11: a write of a zero k bytes before the
\* data of a live buffer whose canary slot is still whole, made without the
\* container's mutex.
Underflow(t, i, k) ==
    /\ Alive /\ IsIdle(t)
    /\ ~containers[i].destroyed
    /\ SlotBytes(vm, containers[i]) = K(vm)
    /\ vm' = Store(Fresh(vm), containers[i].buffer.addr - k, <<0>>)
    /\ UNCHANGED <<catchInterruptOnce, process,
                   allLockedBuffersMutex, pageSize, canary, containers, allLockedBuffers, ret,
                   threads, history>>

GoDestroy(t, i) ==
    /\ Alive /\ IsIdle(t)
    /\ Call(t, Frame("Destroy", i, "lock", <<>>, "Destroy"))
    /\ UNCHANGED <<catchInterruptOnce, process,
                   allLockedBuffersMutex, pageSize, vm, canary, containers, allLockedBuffers, ret,
                   history>>

\* Section 4.G: the finalizer calls Destroy, once per buffer.
Finalizer(t, i) ==
    /\ Alive /\ IsIdle(t)
    /\ ~history[i].finalized
    /\ Call(t, Frame("Destroy", i, "lock", <<>>, "finalizer"))
    /\ history' = [history EXCEPT ![i].finalized = TRUE]
    /\ UNCHANGED <<catchInterruptOnce, process,
                   allLockedBuffersMutex, pageSize, vm, canary, containers, allLockedBuffers, ret>>

GoDestroyAll(t) ==
    /\ Alive /\ IsIdle(t)
    /\ Call(t, Frame("DestroyAll", 0, "snapshot", <<>>, "DestroyAll"))
    /\ UNCHANGED <<catchInterruptOnce, process,
                   allLockedBuffersMutex, pageSize, vm, canary, containers, allLockedBuffers, ret,
                   history>>

\* Destroy, step 1: take the container's mutex; if it is destroyed already,
\* release the mutex and return.
DestroyLock(t) ==
    /\ Alive /\ At(t, "Destroy", "lock")
    /\ MuFree(containers[Top(t).b])
    /\ IF containers[Top(t).b].destroyed
       THEN /\ ReturnFrom(t)
            /\ UNCHANGED containers
       ELSE /\ containers' = [containers EXCEPT ![Top(t).b].mu = t]
            /\ Goto(t, [Top(t) EXCEPT !.pc = "body",
                                      !.todo = Teardown(containers[Top(t).b])])
    /\ UNCHANGED <<catchInterruptOnce, process,
                   allLockedBuffersMutex, pageSize, vm, canary, allLockedBuffers, ret, history>>

\* One step of the teardown body.  A canary mismatch calls SafePanic from
\* where the comparison stands, the mutex still held.
DestroyStep(t) ==
    /\ Alive /\ At(t, "Destroy", "body")
    /\ Top(t).todo # <<>>
    /\ LET c == Head(Top(t).todo)
           v == Exec(Fresh(vm), c)
       IN  /\ history' = [history EXCEPT ![Top(t).b].calls = Append(@, c.call)]
           /\ IF v.panic = "SafePanic"
              THEN /\ vm' = [v EXCEPT !.panic = ""]
                   /\ Call(t, Frame("SafePanic", Top(t).b, "destroyall", <<>>,
                                    "Destroy"))
              ELSE /\ vm' = v
                   /\ Goto(t, [Top(t) EXCEPT !.todo = Tail(@)])
    /\ UNCHANGED <<catchInterruptOnce, process,
                   allLockedBuffersMutex, pageSize, canary, containers, allLockedBuffers, ret>>

\* The end of the locked part: the flags are set and the mutex released.
DestroyFinish(t) ==
    /\ Alive /\ At(t, "Destroy", "body")
    /\ Top(t).todo = <<>>
    /\ containers' = [containers EXCEPT
                        ![Top(t).b] = [MarkDestroyed(@) EXCEPT !.mu = 0]]
    /\ Goto(t, [Top(t) EXCEPT !.pc = "remove"])
    /\ UNCHANGED <<catchInterruptOnce, process,
                   allLockedBuffersMutex, pageSize, vm, canary, allLockedBuffers, ret, history>>

\* Destroy, step 2: remove the buffer from the registry, and return.
DestroyRemove(t) ==
    /\ Alive /\ At(t, "Destroy", "remove")
    /\ allLockedBuffers' = Remove(allLockedBuffers, Top(t).b)
    /\ ReturnFrom(t)
    /\ UNCHANGED <<catchInterruptOnce, process,
                   allLockedBuffersMutex, pageSize, vm, canary, containers, ret, history>>

\* SafePanic: DestroyAll, then (when DestroyAll returns) the process is
\* aborted.
SafePanicDestroyAll(t) ==
    /\ Alive /\ At(t, "SafePanic", "destroyall")
    /\ GotoAndCall(t, [Top(t) EXCEPT !.pc = "abort"],
                   Frame("DestroyAll", 0, "snapshot", <<>>, "SafePanic"))
    /\ UNCHANGED <<catchInterruptOnce, process,
                   allLockedBuffersMutex, pageSize, vm, canary, containers, allLockedBuffers, ret,
                   history>>

\* DestroyAll: snapshot the registry, then call Destroy on each entry of
\* the snapshot.
DestroyAllSnapshot(t) ==
    /\ Alive /\ At(t, "DestroyAll", "snapshot")
    /\ Goto(t, [Top(t) EXCEPT !.pc = "each", !.todo = allLockedBuffers])
    /\ UNCHANGED <<catchInterruptOnce, process,
                   allLockedBuffersMutex, pageSize, vm, canary, containers, allLockedBuffers, ret,
                   history>>

DestroyAllEach(t) ==
    /\ Alive /\ At(t, "DestroyAll", "each")
    /\ Top(t).todo # <<>>
    /\ GotoAndCall(t, [Top(t) EXCEPT !.todo = Tail(@)],
                   Frame("Destroy", Head(Top(t).todo), "lock", <<>>, "DestroyAll"))
    /\ UNCHANGED <<catchInterruptOnce, process,
                   allLockedBuffersMutex, pageSize, vm, canary, containers, allLockedBuffers, ret,
                   history>>

\* DestroyAll returns; returning into SafePanic, the process is aborted.
DestroyAllReturn(t) ==
    /\ Alive /\ At(t, "DestroyAll", "each")
    /\ Top(t).todo = <<>>
    /\ ReturnFrom(t)
    /\ vm' = IF Top(t).by = "SafePanic" THEN Fail(Fresh(vm), "SafePanic") ELSE vm
    /\ UNCHANGED <<catchInterruptOnce, process,
                   allLockedBuffersMutex, pageSize, canary, containers, allLockedBuffers, ret, history>>

\* The bytes before the data that the fixture reaches: the one next to the
\* data and the first of the canary slot.
UnderflowAt == {1, CanaryLen}

NextConc ==
    \/ LoadPackage
    \/ \E t \in Threads : GoNew(t, MaxLen)
    \/ \E t \in Threads, i \in Bufs : GoMarkAsReadOnly(t, i)
    \/ \E t \in Threads, i \in Bufs, k \in UnderflowAt : Underflow(t, i, k)
    \/ \E t \in Threads, i \in Bufs : GoDestroy(t, i)
    \/ \E t \in Threads, i \in Bufs : Finalizer(t, i)
    \/ \E t \in Threads : GoDestroyAll(t)
    \/ \E t \in Threads : DestroyLock(t)
    \/ \E t \in Threads : DestroyStep(t)
    \/ \E t \in Threads : DestroyFinish(t)
    \/ \E t \in Threads : DestroyRemove(t)
    \/ \E t \in Threads : SafePanicDestroyAll(t)
    \/ \E t \in Threads : DestroyAllSnapshot(t)
    \/ \E t \in Threads : DestroyAllEach(t)
    \/ \E t \in Threads : DestroyAllReturn(t)

SpecConc == Init /\ [][NextConc]_vars

----------------------------------------------------------------------------
(* TestConcurrent: NThreads goroutines run the same statements on one      *)
(* buffer.  The calls that take the container's mutex write their bytes    *)
(* one at a time while they hold it; WipeBytes(b.Buffer) receives the      *)
(* slice and writes its bytes one at a time, holding nothing.              *)

TestProgram ==
    <<"MarkAsReadOnly", "MarkAsReadWrite", "Move", "Copy", "WipeBytes", "Done">>

StatementAfter(op) ==
    TestProgram[1 + CHOOSE k \in 1 .. Len(TestProgram) : TestProgram[k] = op]

TestSrc(op) == IF op = "Move" THEN TestMoveSrc ELSE TestCopySrc

Statement(t, op) == Frame(op, 1, "call", <<>>, "TestConcurrent")

\* The address the next byte of a frame's todo goes to.
Cursor(t) == containers[Top(t).b].buffer.addr
                + (containers[Top(t).b].buffer.len - Len(Top(t).todo))

\* b, _ := New(4), and the goroutines are started.
TestStart ==
    /\ Alive
    /\ containers = <<>>
    /\ vm' = Run(Fresh(vm), CreateRegion(vm, TestLen))
    /\ Register(NewBuffer(vm, TestLen), FALSE)
    /\ history' = Append(history, NoHistory)
    /\ threads' = [t \in Threads |-> <<Statement(t, TestProgram[1])>>]
    /\ UNCHANGED <<catchInterruptOnce, process,
                   allLockedBuffersMutex, pageSize, canary, ret>>

TestMarkAsReadOnly(t) ==
    /\ Alive /\ At(t, "MarkAsReadOnly", "call")
    /\ MuFree(containers[Top(t).b])
    /\ LET b == containers[Top(t).b]
           acts == StateErr(b, FALSE) = ErrNone /\ ~b.readOnly
       IN  /\ vm' = Run(Fresh(vm), IF acts THEN MarkReadOnly(b) ELSE <<>>)
           /\ containers' = IF acts /\ vm'.panic = ""
                            THEN [containers EXCEPT ![Top(t).b].readOnly = TRUE]
                            ELSE containers
    /\ Goto(t, Statement(t, StatementAfter(Top(t).op)))
    /\ UNCHANGED <<catchInterruptOnce, process,
                   allLockedBuffersMutex, pageSize, canary, allLockedBuffers, ret, history>>

TestMarkAsReadWrite(t) ==
    /\ Alive /\ At(t, "MarkAsReadWrite", "call")
    /\ MuFree(containers[Top(t).b])
    /\ LET b == containers[Top(t).b]
           acts == StateErr(b, FALSE) = ErrNone /\ b.readOnly
       IN  /\ vm' = Run(Fresh(vm), IF acts THEN MarkReadWrite(b) ELSE <<>>)
           /\ containers' = IF acts /\ vm'.panic = ""
                            THEN [containers EXCEPT ![Top(t).b].readOnly = FALSE]
                            ELSE containers
    /\ Goto(t, Statement(t, StatementAfter(Top(t).op)))
    /\ UNCHANGED <<catchInterruptOnce, process,
                   allLockedBuffersMutex, pageSize, canary, allLockedBuffers, ret, history>>

\* Move and Copy: take the mutex; on ErrReadOnly or ErrDestroyed release it
\* and return (the test ignores the error).
TestCopyLock(t) ==
    /\ Alive /\ ~IsIdle(t)
    /\ Top(t).op \in {"Move", "Copy"} /\ Top(t).pc = "call"
    /\ MuFree(containers[Top(t).b])
    /\ LET b == containers[Top(t).b]
           src == TestSrc(Top(t).op)
       IN  IF StateErr(b, TRUE) # ErrNone
           THEN /\ Goto(t, Statement(t, StatementAfter(Top(t).op)))
                /\ UNCHANGED containers
           ELSE /\ containers' = [containers EXCEPT ![Top(t).b].mu = t]
                /\ Goto(t, [Top(t) EXCEPT
                              !.pc = "write",
                              !.todo = SubSeq(src, 1, MinLen(b.buffer.len, Len(src)))])
    /\ UNCHANGED <<catchInterruptOnce, process,
                   allLockedBuffersMutex, pageSize, vm, canary, allLockedBuffers, ret, history>>

TestCopyByte(t) ==
    /\ Alive /\ ~IsIdle(t)
    /\ Top(t).op \in {"Move", "Copy"} /\ Top(t).pc = "write"
    /\ Top(t).todo # <<>>
    /\ vm' = Store(Fresh(vm), Cursor(t), <<Head(Top(t).todo)>>)
    /\ Goto(t, [Top(t) EXCEPT !.todo = Tail(@)])
    /\ UNCHANGED <<catchInterruptOnce, process,
                   allLockedBuffersMutex, pageSize, canary, containers, allLockedBuffers, ret, history>>

\* The copy is done (Move wipes its argument, which no one else holds); the
\* mutex is released.
TestCopyUnlock(t) ==
    /\ Alive /\ ~IsIdle(t)
    /\ Top(t).op \in {"Move", "Copy"} /\ Top(t).pc = "write"
    /\ Top(t).todo = <<>>
    /\ containers' = [containers EXCEPT ![Top(t).b].mu = 0]
    /\ Goto(t, Statement(t, StatementAfter(Top(t).op)))
    /\ UNCHANGED <<catchInterruptOnce, process,
                   allLockedBuffersMutex, pageSize, vm, canary, allLockedBuffers, ret, history>>

\* WipeBytes(b.Buffer): the argument is the buffer's own slice.
TestWipeCall(t) ==
    /\ Alive /\ At(t, "WipeBytes", "call")
    /\ Goto(t, [Top(t) EXCEPT
                  !.pc = "write",
                  !.todo = wipeBytes(Data(vm, containers[Top(t).b]))])
    /\ UNCHANGED <<catchInterruptOnce, process,
                   allLockedBuffersMutex, pageSize, vm, canary, containers, allLockedBuffers, ret,
                   history>>

TestWipeByte(t) ==
    /\ Alive /\ At(t, "WipeBytes", "write")
    /\ Top(t).todo # <<>>
    /\ vm' = Store(Fresh(vm), Cursor(t), <<Head(Top(t).todo)>>)
    /\ Goto(t, [Top(t) EXCEPT !.todo = Tail(@)])
    /\ UNCHANGED <<catchInterruptOnce, process,
                   allLockedBuffersMutex, pageSize, canary, containers, allLockedBuffers, ret, history>>

\* wg.Done()
TestWipeReturn(t) ==
    /\ Alive /\ At(t, "WipeBytes", "write")
    /\ Top(t).todo = <<>>
    /\ Goto(t, Statement(t, StatementAfter(Top(t).op)))
    /\ UNCHANGED <<catchInterruptOnce, process,
                   allLockedBuffersMutex, pageSize, vm, canary, containers, allLockedBuffers, ret,
                   history>>

AllDone == \A t \in Threads : At(t, "Done", "call")

\* wg.Wait(); b.Destroy()
TestFinish ==
    /\ Alive /\ AllDone
    /\ vm' = Run(Fresh(vm), IF containers[1].destroyed THEN <<>>
                            ELSE Teardown(containers[1]))
    /\ IF vm'.panic # ""
       THEN UNCHANGED <<containers, allLockedBuffers>>
       ELSE /\ containers' = [containers EXCEPT ![1] = MarkDestroyed(@)]
            /\ allLockedBuffers' = Remove(allLockedBuffers, 1)
    /\ threads' = [t \in Threads |-> <<>>]
    /\ UNCHANGED <<catchInterruptOnce, process,
                   allLockedBuffersMutex, pageSize, canary, ret, history>>

NextTest ==
    \/ LoadPackage
    \/ TestStart
    \/ \E t \in Threads : TestMarkAsReadOnly(t)
    \/ \E t \in Threads : TestMarkAsReadWrite(t)
    \/ \E t \in Threads : TestCopyLock(t)
    \/ \E t \in Threads : TestCopyByte(t)
    \/ \E t \in Threads : TestCopyUnlock(t)
    \/ \E t \in Threads : TestWipeCall(t)
    \/ \E t \in Threads : TestWipeByte(t)
    \/ \E t \in Threads : TestWipeReturn(t)
    \/ TestFinish

SpecTest == Init /\ [][NextTest]_vars

----------------------------------------------------------------------------
(* CatchInterrupt and the shutdown on an interrupt (section 4.F).  Threads *)
(* call CatchInterrupt with one handler or another, while buffers are made *)
(* and the interrupt signal arrives.  The handler installed is a goroutine *)
(* waiting for the signal: it runs the user's handler, then DestroyAll,    *)
(* then exits the process.                                                 *)

\* The functions callers pass to CatchInterrupt.
Handlers == {1, 2}

\* CatchInterrupt calls made in one run: enough for one thread to call a
\* second time after a call has returned.
MaxCalls == NThreads + 1

Logged(e) == process' = [process EXCEPT !.log = Append(@, e)]

Events(kind) == SelectSeq(process.log, LAMBDA e : e[1] = kind)

\* Variant: the Once never reports that it is done.
OnceNeverDone(o) == FALSE

\* sync.Once: f has been run.
OnceDone(o) == o.done

CatchInterrupt(t, h) ==
    /\ Alive /\ IsIdle(t)
    /\ Len(Events("call")) < MaxCalls
    /\ Call(t, Frame("CatchInterrupt", 0, "once", <<h>>, "CatchInterrupt"))
    /\ Logged(<<"call", t, h>>)
    /\ UNCHANGED <<allLockedBuffersMutex, pageSize, vm, canary, containers, allLockedBuffers, ret,
                   history, catchInterruptOnce>>

\* catchInterruptOnce.Do: return if it is done; otherwise take its mutex,
\* waiting while another thread is inside.
OnceDo(t) ==
    /\ Alive /\ At(t, "CatchInterrupt", "once")
    /\ IF OnceDone(catchInterruptOnce)
       THEN /\ ReturnFrom(t)
            /\ Logged(<<"return", t, Top(t).todo[1]>>)
            /\ UNCHANGED catchInterruptOnce
       ELSE /\ catchInterruptOnce.m = 0
            /\ catchInterruptOnce' = [catchInterruptOnce EXCEPT !.m = t]
            /\ Goto(t, [Top(t) EXCEPT !.pc = "install"])
            /\ UNCHANGED process
    /\ UNCHANGED <<allLockedBuffersMutex, pageSize, vm, canary, containers, allLockedBuffers, ret,
                   history>>

\* Inside Do: the handler is installed (the signal is now delivered to the
\* shutdown goroutine, which starts waiting); the Once is done.
Install(t) ==
    /\ Alive /\ At(t, "CatchInterrupt", "install")
    /\ process' = [process EXCEPT
                     !.notify = Top(t).todo[1],
                     !.shutdown = "waiting",
                     !.log = @ \o << <<"install", t, Top(t).todo[1]>>,
                                     <<"return", t, Top(t).todo[1]>> >>]
    /\ catchInterruptOnce' = [done |-> TRUE, m |-> 0]
    /\ ReturnFrom(t)
    /\ UNCHANGED <<allLockedBuffersMutex, pageSize, vm, canary, containers, allLockedBuffers, ret,
                   history>>

\* The interrupt signal arrives.  With no handler installed the runtime
\* ends the process; otherwise the signal waits to be received (one at a
\* time in this model).
Interrupt ==
    /\ Alive
    /\ process.pending = 0
    /\ IF process.notify = 0
       THEN /\ vm' = Fail(Fresh(vm), "signal: interrupt")
            /\ process' = [process EXCEPT !.exit = 130]
       ELSE /\ vm' = vm
            /\ process' = [process EXCEPT !.pending = 1]
    /\ UNCHANGED <<allLockedBuffersMutex, pageSize, canary, containers, allLockedBuffers, ret,
                   threads, history, catchInterruptOnce>>

\* Step 1: the goroutine receives the signal and invokes the user handler.
ShutdownHandler ==
    /\ Alive
    /\ process.shutdown = "waiting" /\ process.pending > 0
    /\ process' = [process EXCEPT
                     !.pending = @ - 1,
                     !.shutdown = "destroyall",
                     !.log = Append(@, <<"handler", process.notify>>)]
    /\ UNCHANGED <<allLockedBuffersMutex, pageSize, vm, canary, containers, allLockedBuffers, ret,
                   threads, history, catchInterruptOnce>>

\* Step 2: DestroyAll().  No thread of this specification holds a
\* container's mutex from one step to the next.
ShutdownDestroyAll ==
    /\ Alive
    /\ process.shutdown = "destroyall"
    /\ \A i \in Bufs : MuFree(containers[i])
    /\ vm' = Run(Fresh(vm), TeardownEach(allLockedBuffers))
    /\ IF vm'.panic # ""
       THEN UNCHANGED <<containers, allLockedBuffers>>
       ELSE /\ containers' = [i \in 1 .. Len(containers) |->
                                IF InSeq(i, allLockedBuffers)
                                THEN MarkDestroyed(containers[i])
                                ELSE containers[i]]
            /\ allLockedBuffers' = <<>>
    /\ process' = [process EXCEPT
                     !.shutdown = "exit",
                     !.log = Append(@, <<"DestroyAll", Len(allLockedBuffers)>>)]
    /\ UNCHANGED <<allLockedBuffersMutex, pageSize, canary, ret, threads, history, catchInterruptOnce>>

\* Step 3: the process is terminated with a non-zero exit code.
ShutdownExit ==
    /\ Alive
    /\ process.shutdown = "exit"
    /\ vm' = Fail(Fresh(vm), "os.Exit")
    /\ process' = [process EXCEPT
                     !.shutdown = "done",
                     !.exit = 1,
                     !.log = Append(@, <<"exit", 1>>)]
    /\ UNCHANGED <<allLockedBuffersMutex, pageSize, canary, containers, allLockedBuffers, ret,
                   threads, history, catchInterruptOnce>>

NextSig ==
    \/ LoadPackage
    \/ \E t \in Threads : GoNew(t, MaxLen)
    \/ \E t \in Threads, h \in Handlers : CatchInterrupt(t, h)
    \/ \E t \in Threads : OnceDo(t)
    \/ \E t \in Threads : Install(t)
    \/ Interrupt
    \/ ShutdownHandler
    \/ ShutdownDestroyAll
    \/ ShutdownExit

SpecSig == Init /\ [][NextSig]_vars

----------------------------------------------------------------------------
(* roundToPageSize on its own: the page size is any power of two, and the  *)
(* lengths are the small ones and the ones next to the largest int.        *)

PageSizes == {Pow2(k) : k \in 0 .. (PageShift + 2)}

RoundInputs(P) == (0 .. (4 * P + 1)) \cup ((MaxInt - P) .. MaxInt)

InitRound ==
    /\ pageSize \in PageSizes
    /\ vm = EmptyVm
    /\ canary = NilSlice
    /\ containers = <<>>
    /\ allLockedBuffers = <<>>
    /\ ret = Idle
    /\ threads = [t \in Threads |-> <<>>]
    /\ history = <<>>
    /\ catchInterruptOnce = NewOnce
    /\ process = NewProcess
    /\ allLockedBuffersMutex = 0

RoundToPageSize(length) ==
    /\ ret.op = "idle"
    /\ ret' = Returned("roundToPageSize", 0, ErrNone, length, roundToPageSize(length))
    /\ UNCHANGED <<threads, history, catchInterruptOnce, process,
                   allLockedBuffersMutex, pageSize, vm,
                   canary, containers, allLockedBuffers>>

\* TestRoundPage: roundToPageSize(pageSize) and roundToPageSize(pageSize+1).
TestRoundPage ==
    /\ ret.op = "idle"
    /\ ret' = Returned("TestRoundPage", 0, ErrNone, <<pageSize, pageSize + 1>>,
                       <<roundToPageSize(pageSize), roundToPageSize(pageSize + 1)>>)
    /\ UNCHANGED <<threads, history, catchInterruptOnce, process,
                   allLockedBuffersMutex, pageSize, vm,
                   canary, containers, allLockedBuffers>>

NextRound ==
    \/ \E length \in RoundInputs(pageSize) : RoundToPageSize(length)
    \/ TestRoundPage
    \/ Return

SpecRound == InitRound /\ [][NextRound]_vars

----------------------------------------------------------------------------
(* The two kinds of mutex together.  Threads call New, Trim, Copy,         *)
(* MarkAsReadOnly, Destroy and DestroyAll; every acquisition of a          *)
(* container's mutex and of the registry's mutex is a step of its own.     *)
(* Destroy and DestroyAll are the ones above, except that they take the    *)
(* registry's mutex before they touch the registry.                        *)

\* A container is reachable by other threads once the New or Trim that
\* makes it has returned.
Published(i) ==
    \A t \in Threads :
        \A d \in 1 .. Depth(t) :
            ~(threads[t][d].op \in {"New", "Trim"} /\ threads[t][d].b = i)

PublishedBufs == {i \in Bufs : Published(i)}

\* The position of a call that has come to the registry, before and after
\* it took the registry's mutex.
RegistryWaits == {"register", "remove", "snapshot"}

Holding(pc) ==
    CASE pc = "register" -> "registering"
      [] pc = "remove" -> "removing"
      [] pc = "snapshot" -> "snapshotting"

\* Create, steps 2-7: the region is built; the container is not yet
\* registered.
NewCreate(t, n) ==
    /\ Alive /\ IsIdle(t)
    /\ Len(containers) < MaxBufs
    /\ vm' = Run(Fresh(vm), CreateRegion(vm, n))
    /\ vm'.panic = ""
    /\ containers' = Append(containers, NewContainer(NewBuffer(vm, n)))
    /\ history' = Append(history, NoHistory)
    /\ Call(t, Frame("New", Len(containers) + 1, "register", <<>>, "New"))
    /\ UNCHANGED <<catchInterruptOnce, process, allLockedBuffersMutex, pageSize,
                   canary, allLockedBuffers, ret>>

\* allLockedBuffersMutex.Lock()
RegistryLock(t) ==
    /\ Alive /\ ~IsIdle(t)
    /\ Top(t).pc \in RegistryWaits
    /\ allLockedBuffersMutex = 0
    /\ allLockedBuffersMutex' = t
    /\ Goto(t, [Top(t) EXCEPT !.pc = Holding(@)])
    /\ UNCHANGED <<catchInterruptOnce, process, pageSize, vm, canary, containers,
                   allLockedBuffers, ret, history>>

\* Create, step 8: the container is added and the mutex released.  New
\* returns; Trim goes on to fill the new buffer.
RegistryAppend(t) ==
    /\ Alive /\ ~IsIdle(t)
    /\ Top(t).op \in {"New", "Trim"} /\ Top(t).pc = "registering"
    /\ allLockedBuffers' = Append(allLockedBuffers, Top(t).b)
    /\ allLockedBuffersMutex' = 0
    /\ IF Top(t).op = "New"
       THEN ReturnFrom(t)
       ELSE Goto(t, [Top(t) EXCEPT !.pc = "copy"])
    /\ UNCHANGED <<catchInterruptOnce, process, pageSize, vm, canary, containers,
                   ret, history>>

\* Destroy, step 2, with the registry's mutex held.
RegistryRemove(t) ==
    /\ Alive /\ At(t, "Destroy", "removing")
    /\ allLockedBuffers' = Remove(allLockedBuffers, Top(t).b)
    /\ allLockedBuffersMutex' = 0
    /\ ReturnFrom(t)
    /\ UNCHANGED <<catchInterruptOnce, process, pageSize, vm, canary, containers,
                   ret, history>>

\* DestroyAll's snapshot, with the registry's mutex held.
RegistrySnapshot(t) ==
    /\ Alive /\ At(t, "DestroyAll", "snapshotting")
    /\ allLockedBuffersMutex' = 0
    /\ Goto(t, [Top(t) EXCEPT !.pc = "each", !.todo = allLockedBuffers])
    /\ UNCHANGED <<catchInterruptOnce, process, pageSize, vm, canary, containers,
                   allLockedBuffers, ret, history>>

\* Trim takes the source's mutex and, the source live and the bounds good,
\* builds the new region with the mutex held (an error returns at once and
\* changes nothing).
TrimLock(t, i, offset, size) ==
    /\ Alive /\ IsIdle(t)
    /\ MuFree(containers[i])
    /\ TrimErr(containers[i], offset, size) = ErrNone
    /\ Len(containers) < MaxBufs
    /\ vm' = Run(Fresh(vm), CreateRegion(vm, size))
    /\ vm'.panic = ""
    /\ containers' = Append([containers EXCEPT ![i].mu = t],
                            NewContainer(NewBuffer(vm, size)))
    /\ history' = Append(history, NoHistory)
    /\ Call(t, Frame("Trim", Len(containers) + 1, "register",
                     <<i, offset, size>>, "Trim"))
    /\ UNCHANGED <<catchInterruptOnce, process, allLockedBuffersMutex, pageSize,
                   canary, allLockedBuffers, ret>>

\* Trim copies the part, gives the new buffer the source's protection,
\* releases the source's mutex and returns.
TrimCopy(t) ==
    /\ Alive /\ At(t, "Trim", "copy")
    /\ LET i == Top(t).todo[1]
           b == containers[i]
           fresh == containers[Top(t).b]
           part == SubSeq(Data(vm, b), Top(t).todo[2] + 1,
                          Top(t).todo[2] + Top(t).todo[3])
       IN  /\ vm' = Run(Fresh(vm),
                        CopyInto(fresh.buffer, part)
                        \o (IF b.readOnly THEN MarkReadOnly(fresh) ELSE <<>>))
           /\ containers' = [containers EXCEPT
                               ![i].mu = 0,
                               ![Top(t).b].readOnly = b.readOnly]
    /\ ReturnFrom(t)
    /\ UNCHANGED <<catchInterruptOnce, process, allLockedBuffersMutex, pageSize,
                   canary, allLockedBuffers, ret, history>>

\* Copy and MarkAsReadOnly take the container's mutex ...
BufferLock(t, i, op) ==
    /\ Alive /\ IsIdle(t)
    /\ MuFree(containers[i])
    /\ containers' = [containers EXCEPT ![i].mu = t]
    /\ Call(t, Frame(op, i, "locked", <<>>, op))
    /\ UNCHANGED <<catchInterruptOnce, process, allLockedBuffersMutex, pageSize,
                   vm, canary, allLockedBuffers, ret, history>>

\* ... act if the container's state allows it, release the mutex and return.
BufferOp(t) ==
    /\ Alive /\ ~IsIdle(t)
    /\ Top(t).op \in {"Copy", "MarkAsReadOnly"} /\ Top(t).pc = "locked"
    /\ LET b == containers[Top(t).b]
           writes == Top(t).op = "Copy"
           acts == StateErr(b, writes) = ErrNone /\ (writes \/ ~b.readOnly)
       IN  /\ vm' = Run(Fresh(vm),
                        IF ~acts THEN <<>>
                        ELSE IF writes THEN CopyInto(b.buffer, TestCopySrc)
                        ELSE MarkReadOnly(b))
           /\ containers' = [containers EXCEPT
                               ![Top(t).b].mu = 0,
                               ![Top(t).b].readOnly = IF acts /\ ~writes THEN TRUE ELSE @]
    /\ ReturnFrom(t)
    /\ UNCHANGED <<catchInterruptOnce, process, allLockedBuffersMutex, pageSize,
                   canary, allLockedBuffers, ret, history>>

NextLock ==
    \/ LoadPackage
    \/ \E t \in Threads : NewCreate(t, MaxLen)
    \/ \E t \in Threads : RegistryLock(t)
    \/ \E t \in Threads : RegistryAppend(t)
    \/ \E t \in Threads : RegistryRemove(t)
    \/ \E t \in Threads : RegistrySnapshot(t)
    \/ \E t \in Threads, i \in PublishedBufs : TrimLock(t, i, MaxLen - 1, 1)
    \/ \E t \in Threads : TrimCopy(t)
    \/ \E t \in Threads, i \in PublishedBufs :
          \E op \in {"Copy", "MarkAsReadOnly"} : BufferLock(t, i, op)
    \/ \E t \in Threads : BufferOp(t)
    \/ \E t \in Threads, i \in PublishedBufs : GoDestroy(t, i)
    \/ \E t \in Threads : GoDestroyAll(t)
    \/ \E t \in Threads : DestroyLock(t)
    \/ \E t \in Threads : DestroyStep(t)
    \/ \E t \in Threads : DestroyFinish(t)
    \/ \E t \in Threads : DestroyAllEach(t)
    \/ \E t \in Threads : DestroyAllReturn(t)

SpecLock == Init /\ [][NextLock]_vars

----------------------------------------------------------------------------
(* Properties of the threaded specifications *)

TeardownBody ==
    <<"Protect", "compare", "wipeBytes", "wipeBytes", "Unlock", "Protect", "Free">>

IsPrefix(p, q) == Len(p) <= Len(q) /\ p = SubSeq(q, 1, Len(p))

PlatformFailures ==
    {"memcall.Alloc", "memcall.Free", "memcall.Lock", "memcall.Unlock",
     "memcall.Protect"}

\* The panics of the unrecoverable conditions.
Unrecoverable == PlatformFailures \cup {"memguard.csprng", "SafePanic"}

\* Thread t takes the step.
Steps(t) == threads'[t] # threads[t]

\* C2: Destroy is idempotent under every interleaving of explicit callers,
\* DestroyAll and the finalizer.  The steps executed on a container's
\* region are at every moment a prefix of one teardown body (Protect,
\* compare, wipe, wipe, Unlock, Protect, Free), and exactly that body once
\* the container is destroyed; no platform call fails (as a second Unlock or
\* Free of the region would); and a Destroy that finds the container
\* destroyed returns having changed nothing.
C2_DestroyOnce ==
    [][/\ \A i \in 1 .. Len(containers') :
            /\ IsPrefix(history'[i].calls, TeardownBody)
            /\ containers'[i].destroyed => history'[i].calls = TeardownBody
       /\ vm'.panic \notin PlatformFailures
       /\ \A t \in Threads :
            (At(t, "Destroy", "lock") /\ containers[Top(t).b].destroyed /\ Steps(t)) =>
                /\ threads'[t] = SubSeq(threads[t], 1, Depth(t) - 1)
                /\ vm' = vm
                /\ containers' = containers
                /\ allLockedBuffers' = allLockedBuffers
                /\ history' = history]_vars

\* The finalizer is in the middle of the teardown while DestroyAll waits for
\* the same container's mutex.
C2_Witness ==
    \E t1, t2 \in Threads :
        /\ At(t1, "Destroy", "body") /\ At(t2, "Destroy", "lock")
        /\ Top(t1).b = Top(t2).b
        /\ Top(t1).by = "finalizer" /\ Top(t2).by = "DestroyAll"
        /\ Len(history[Top(t1).b].calls) >= 3

\* C7: canary corruption is detected at teardown.  When Destroy compares,
\* the inner pages are READ+WRITE and of the teardown only the Protect has
\* been done (nothing is wiped yet); if any of the 32 bytes before the data
\* differs from the canary, Destroy calls SafePanic, and otherwise it goes
\* on to the wipe.  A Destroy that has called SafePanic never returns and
\* does nothing more: the container stays undestroyed, its mutex held, its
\* region neither unlocked nor freed.
C7_CanaryDetected ==
    [][\A t \in Threads :
        /\ (/\ At(t, "Destroy", "body") /\ Steps(t)
            /\ Top(t).todo # <<>> /\ Head(Top(t).todo).call = "compare") =>
              LET b == containers[Top(t).b]
              IN  /\ \A p \in PagesOf(InnerPages(b)) : vm.prot[p] = "RW"
                  /\ history[Top(t).b].calls = <<"Protect">>
                  /\ IF SlotBytes(vm, b) # K(vm)
                     THEN /\ Len(threads'[t]) = Depth(t) + 1
                          /\ threads'[t][Depth(t)] = Top(t)
                          /\ threads'[t][Depth(t) + 1].op = "SafePanic"
                     ELSE /\ Len(threads'[t]) = Depth(t)
                          /\ threads'[t][Depth(t)].op = "Destroy"
                          /\ Head(threads'[t][Depth(t)].todo).call = "wipeBytes"
        /\ \A d \in 1 .. Depth(t) :
              threads[t][d].op = "SafePanic" =>
                LET i == threads[t][d].b
                IN  /\ Len(threads'[t]) >= d
                    /\ \A e \in 1 .. (d - 1) : threads'[t][e] = threads[t][e]
                    /\ threads'[t][d].op = "SafePanic"
                    /\ history'[i].calls = <<"Protect", "compare">>
                    /\ ~containers'[i].destroyed
                    /\ containers'[i].mu = t
                    /\ \A p \in PagesOf(InnerPages(containers'[i])) :
                          p \in vm'.locked /\ vm'.prot[p] # "unmapped"]_vars

\* A read-only buffer whose canary byte next to the data was overwritten:
\* its Destroy is inside SafePanic, whose DestroyAll has come back to it.
C7_Witness ==
    \E t \in Threads :
        /\ Depth(t) >= 4
        /\ threads[t][1].op = "Destroy"
        /\ threads[t][2].op = "SafePanic"
        /\ At(t, "Destroy", "lock")
        /\ Top(t).b = threads[t][1].b
        /\ containers[Top(t).b].readOnly
        /\ SlotBytes(vm, containers[Top(t).b])[CanaryLen] = 0

\* C6: under NThreads threads each running MarkAsReadOnly, MarkAsReadWrite,
\* Move, Copy and WipeBytes(b.Buffer) on one live buffer, no write meets a
\* page without write permission, the bytes a Copy or Move has written so
\* far are the bytes of its argument for as long as it runs, and when all
\* threads are done the buffer is live with its read-only flag equal to the
\* protection of its inner pages.
C6_NoFaultNoTear ==
    /\ vm.panic # "fault"
    /\ \A t \in Threads :
          (~IsIdle(t) /\ Top(t).op \in {"Move", "Copy"} /\ Top(t).pc = "write") =>
              LET b == containers[Top(t).b]
                  n == b.buffer.len - Len(Top(t).todo)
              IN  SubSeq(Data(vm, b), 1, n) = SubSeq(TestSrc(Top(t).op), 1, n)
    /\ AllDone =>
          /\ ~containers[1].destroyed
          /\ \A p \in PagesOf(InnerPages(containers[1])) :
                vm.prot[p] = IF containers[1].readOnly THEN "R" ELSE "RW"

\* Every goroutine has reached wg.Done() without a fault.
C6_Witness == AllDone /\ vm.panic = ""

----------------------------------------------------------------------------
(* Properties of the single-caller specification *)

AllZero(q) == \A k \in 1 .. Len(q) : q[k] = 0

BufferOps == {"Copy", "Move", "EqualTo", "MarkAsReadOnly", "MarkAsReadWrite"}

\* The container a finished Trim call read from.
TrimSource(r) == r.arg[1]

\* C1: Destroyed is absorbing.  Destroy returns, and then the buffer is
\* destroyed, its data empty and its read-only flag clear; a destroyed
\* container is never changed again by any call; and Copy, Move, EqualTo,
\* MarkAsReadOnly, MarkAsReadWrite and Trim on it return ErrDestroyed.
C1_DestroyedAbsorbing ==
    [][/\ ret'.op = "Destroy" =>
            /\ vm'.panic = ""
            /\ containers'[ret'.b].destroyed
            /\ containers'[ret'.b].buffer.len = 0
            /\ Data(vm', containers'[ret'.b]) = <<>>
            /\ ~containers'[ret'.b].readOnly
       /\ \A i \in Bufs :
            containers[i].destroyed =>
                /\ containers'[i] = containers[i]
                /\ (ret'.op \in BufferOps /\ ret'.b = i) => ret'.err = ErrDestroyed
                /\ (ret'.op = "Trim" /\ TrimSource(ret') = i) =>
                        ret'.err = ErrDestroyed]_vars

C1_Witness ==
    /\ ret.op = "Move"
    /\ containers[ret.b].destroyed
    /\ ret.err = ErrDestroyed
    /\ \E i \in Bufs : ~containers[i].destroyed

\* C3: DestroyAll returns, and then every container is destroyed with empty
\* data and a clear read-only flag, no page but those of the canary's
\* region is mapped or locked any longer, and the registry is empty; a
\* DestroyAll that finds no live buffer issues no memory operation and
\* changes nothing.
C3_DestroyAll ==
    [][ret'.op = "DestroyAll" =>
        /\ vm'.panic = ""
        /\ \A i \in Bufs :
              /\ containers'[i].destroyed
              /\ containers'[i].buffer.len = 0
              /\ ~containers'[i].readOnly
        /\ Cardinality({p \in Pages : vm'.prot[p] # "unmapped"})
              = 2 + (roundToPageSize(CanaryLen) \div pageSize)
        /\ Cardinality(vm'.locked) = roundToPageSize(CanaryLen) \div pageSize
        /\ allLockedBuffers' = <<>>
        /\ (\A i \in Bufs : containers[i].destroyed) =>
              /\ vm'.calls = <<>>
              /\ containers' = containers
              /\ vm'.mem = vm.mem /\ vm'.prot = vm.prot /\ vm'.locked = vm.locked]_vars

C3_Witness ==
    /\ ret.op = "DestroyAll"
    /\ Len(ret.arg) >= 2
    /\ \E k \in 1 .. Len(ret.out) : ret.out[k]
    /\ \E k \in 1 .. Len(ret.out) : ~ret.out[k]
    /\ \A i \in Bufs : containers[i].destroyed

\* C4: Copy and Move on a live read-only buffer return ErrReadOnly and leave
\* the containers, the registry, the memory contents and every page's
\* protection, lock and no-dump state as they were; on a live writable
\* buffer (for instance after MarkAsReadWrite) they return no error.
C4_ReadOnlyRejects ==
    [][ret'.op \in {"Copy", "Move"} =>
        /\ (~containers[ret'.b].destroyed /\ containers[ret'.b].readOnly) =>
              /\ ret'.err = ErrReadOnly
              /\ containers' = containers
              /\ allLockedBuffers' = allLockedBuffers
              /\ vm'.mem = vm.mem /\ vm'.prot = vm.prot
              /\ vm'.locked = vm.locked /\ vm'.nodump = vm.nodump
              /\ vm'.calls = <<>> /\ vm'.panic = ""
        /\ (~containers[ret'.b].destroyed /\ ~containers[ret'.b].readOnly) =>
              ret'.err = ErrNone /\ vm'.panic = ""]_vars

C4_Witness ==
    /\ ret.op = "Move"
    /\ ret.err = ErrReadOnly
    /\ Len(ret.arg) > 0
    /\ containers[ret.b].readOnly
    /\ \E k \in 1 .. containers[ret.b].buffer.len :
          Data(vm, containers[ret.b])[k] # 0

\* C5: Move(src) on a live writable buffer returns no error, leaves the
\* first min(len(data), len(src)) bytes of data equal to that prefix of src
\* and the other bytes of data as they were, and leaves all len(src) bytes
\* of src zero.
C5_MoveWipesSource ==
    [][(ret'.op = "Move" /\ ~containers[ret'.b].destroyed
            /\ ~containers[ret'.b].readOnly) =>
        LET b == containers[ret'.b]
            n == MinLen(b.buffer.len, Len(ret'.arg))
        IN  /\ ret'.err = ErrNone /\ vm'.panic = ""
            /\ Len(Data(vm', b)) = b.buffer.len
            /\ SubSeq(Data(vm', b), 1, n) = SubSeq(ret'.arg, 1, n)
            /\ SubSeq(Data(vm', b), n + 1, b.buffer.len)
                  = SubSeq(Data(vm, b), n + 1, b.buffer.len)
            /\ Len(ret'.out) = Len(ret'.arg)
            /\ AllZero(ret'.out)]_vars

\* src is longer than data, and data already held other bytes.
C5_Witness ==
    /\ ret.op = "Move"
    /\ ret.err = ErrNone
    /\ Len(ret.arg) > containers[ret.b].buffer.len
    /\ AllZero(ret.out) /\ ~AllZero(ret.arg)
    /\ Data(vm, containers[ret.b]) = SubSeq(ret.arg, 1, containers[ret.b].buffer.len)

\* C8: Trim(b, offset, size) with valid bounds on a live buffer appends one
\* container, registered once, live, whose data is b.data[offset ..
\* offset+size] and whose read-only flag is b's, in a region of its own; b,
\* its data and the protection of its pages are as before.  A destroyed
\* source gives ErrDestroyed and bad bounds give ErrInvalidLength, and then
\* no container is made, the registry is unchanged and no memory operation
\* is issued.
C8_Trim ==
    [][ret'.op = "Trim" =>
        LET i == TrimSource(ret')
            offset == ret'.arg[2]
            size == ret'.arg[3]
            b == containers[i]
            j == Len(containers) + 1
            bad == offset < 0 \/ size < 1 \/ offset + size > b.buffer.len
        IN  /\ b.destroyed => ret'.err = ErrDestroyed
            /\ (~b.destroyed /\ bad) => ret'.err = ErrInvalidLength
            /\ (~b.destroyed /\ ~bad) =>
                  /\ ret'.err = ErrNone /\ vm'.panic = ""
                  /\ ret'.b = j
                  /\ Len(containers') = j
                  /\ allLockedBuffers' = Append(allLockedBuffers, j)
                  /\ ~containers'[j].destroyed
                  /\ containers'[j].readOnly = b.readOnly
                  /\ Data(vm', containers'[j])
                        = SubSeq(Data(vm, b), offset + 1, offset + size)
                  /\ PagesOf(getAllMemory(containers'[j]))
                        \cap PagesOf(getAllMemory(b)) = {}
                  /\ containers'[i] = b
                  /\ Data(vm', b) = Data(vm, b)
                  /\ \A p \in PagesOf(getAllMemory(b)) : vm'.prot[p] = vm.prot[p]
            /\ ret'.err # ErrNone =>
                  /\ ret'.b = 0
                  /\ containers' = containers
                  /\ allLockedBuffers' = allLockedBuffers
                  /\ vm'.calls = <<>>
                  /\ vm'.mem = vm.mem /\ vm'.prot = vm.prot]_vars

\* A read-only source trimmed at a non-zero offset.
C8_Witness ==
    /\ ret.op = "Trim"
    /\ ret.err = ErrNone
    /\ ret.arg[2] > 0
    /\ containers[ret.b].readOnly
    /\ ~containers[TrimSource(ret)].destroyed
    /\ ~AllZero(Data(vm, containers[ret.b]))
    /\ Data(vm, containers[ret.b]) # Data(vm, containers[TrimSource(ret)])

\* C9: New(n) with n > 0 returns a new live, writable container whose
\* data has length n; New(n) with n <= 0 and NewFromBytes of the empty
\* sequence return ErrInvalidLength, issue no memory operation and leave
\* containers, registry and pages as they were; after NewFromBytes(src)
\* with src non-empty the new buffer's data equals src.
C9_New ==
    [][/\ ret'.op = "New" =>
            IF ret'.arg > 0
            THEN /\ ret'.err = ErrNone /\ vm'.panic = ""
                 /\ ret'.b = Len(containers) + 1
                 /\ Len(containers') = ret'.b
                 /\ Len(Data(vm', containers'[ret'.b])) = ret'.arg
                 /\ containers'[ret'.b].buffer.len = ret'.arg
                 /\ ~containers'[ret'.b].readOnly
                 /\ ~containers'[ret'.b].destroyed
            ELSE /\ ret'.err = ErrInvalidLength
                 /\ vm'.calls = <<>> /\ vm'.prot = vm.prot
                 /\ containers' = containers
                 /\ allLockedBuffers' = allLockedBuffers
       /\ ret'.op = "NewFromBytes" =>
            IF Len(ret'.arg) > 0
            THEN /\ ret'.err = ErrNone /\ vm'.panic = ""
                 /\ Len(containers') = Len(containers) + 1
                 /\ ret'.b = Len(containers')
                 /\ Data(vm', containers'[ret'.b]) = ret'.arg
                 /\ ~containers'[ret'.b].readOnly
                 /\ ~containers'[ret'.b].destroyed
            ELSE /\ ret'.err = ErrInvalidLength
                 /\ vm'.calls = <<>> /\ vm'.prot = vm.prot
                 /\ containers' = containers
                 /\ allLockedBuffers' = allLockedBuffers]_vars

\* A second buffer made from bytes while the first one lives.
C9_Witness ==
    /\ ret.op = "NewFromBytes"
    /\ ret.err = ErrNone
    /\ ret.b = 2
    /\ Len(ret.arg) = 2
    /\ Data(vm, containers[2]) = ret.arg
    /\ ~containers[1].destroyed

\* C10: EqualTo(other) on a live buffer returns true exactly when other
\* and data are the same byte sequence (same length, same bytes), returns
\* no error, and changes neither memory, pages, containers nor registry.
C10_EqualTo ==
    [][(ret'.op = "EqualTo" /\ ~containers[ret'.b].destroyed) =>
        /\ ret'.err = ErrNone
        /\ ret'.out = (ret'.arg = Data(vm, containers[ret'.b]))
        /\ vm'.mem = vm.mem /\ vm'.prot = vm.prot /\ vm'.calls = <<>>
        /\ containers' = containers
        /\ allLockedBuffers' = allLockedBuffers]_vars

\* other is a non-empty strict prefix of data, and EqualTo said false.
C10_Witness ==
    /\ ret.op = "EqualTo"
    /\ ret.err = ErrNone
    /\ ret.out = FALSE
    /\ Len(ret.arg) > 0
    /\ Len(ret.arg) < containers[ret.b].buffer.len
    /\ ret.arg = SubSeq(Data(vm, containers[ret.b]), 1, Len(ret.arg))

\* The events of the shutdown, and the position in the log of the call that
\* the k-th event of the log belongs to.
ShutdownLog ==
    SelectSeq(process.log, LAMBDA e : e[1] \in {"handler", "DestroyAll", "exit"})

CallOf(k) ==
    CHOOSE c \in 1 .. k :
        /\ process.log[c][1] = "call" /\ process.log[c][2] = process.log[k][2]
        /\ \A d \in (c + 1) .. k :
              ~(process.log[d][1] = "call" /\ process.log[d][2] = process.log[k][2])

\* C11: CatchInterrupt has once-only semantics.  Among all calls, one after
\* another or at the same time, at most one installs a handler, and exactly
\* one has done so once any call has returned; the installing call began
\* before any call returned, and its function is the one the signal is
\* routed to.  The shutdown is the installed function, then DestroyAll, then
\* the exit with a non-zero code, each at most once and in this order, and
\* after DestroyAll ran no buffer it found is left undestroyed.
C11_CatchInterruptOnce ==
    LET log == process.log
        installs == {k \in 1 .. Len(log) : log[k][1] = "install"}
        returns == {k \in 1 .. Len(log) : log[k][1] = "return"}
        shut == ShutdownLog
    IN  /\ Cardinality(installs) <= 1
        /\ returns # {} => Cardinality(installs) = 1
        /\ \A k \in installs :
              /\ process.notify = log[k][3]
              /\ log[CallOf(k)][3] = log[k][3]
              /\ \A r \in returns : r > CallOf(k)
        /\ installs = {} => process.notify = 0 /\ shut = <<>>
        /\ Len(shut) <= 3
        /\ Len(shut) >= 1 => shut[1] = <<"handler", process.notify>>
        /\ Len(shut) >= 2 => shut[2][1] = "DestroyAll"
        /\ Len(shut) >= 3 => shut[3][1] = "exit" /\ shut[3][2] # 0
        /\ process.shutdown = "exit" =>
              \A i \in Bufs : InSeq(i, allLockedBuffers) \/ containers[i].destroyed
        /\ process.shutdown = "done" =>
              /\ Len(shut) = 3 /\ process.exit # 0 /\ vm.panic = "os.Exit"

\* Two calls with different functions were in progress together, a third
\* came after one had returned, and the shutdown has run to its exit,
\* having destroyed a buffer, with another interrupt still pending.
C11_Witness ==
    /\ process.shutdown = "done"
    /\ process.pending = 1
    /\ Len(Events("call")) = MaxCalls
    /\ \E k \in 1 .. (Len(process.log) - 1) :
          /\ process.log[k][1] = "call" /\ process.log[k + 1][1] = "call"
          /\ process.log[k][3] # process.log[k + 1][3]
    /\ \E k \in 1 .. (Len(process.log) - 1) :
          process.log[k][1] = "return" /\ process.log[k + 1][1] = "call"
    /\ \E i \in Bufs : containers[i].destroyed

\* r is the least multiple of P that is >= x; stated also as the spec's
\* contract roundUp(kP) = kP, roundUp(kP + 1) = (k+1)P.
IsRoundUp(x, r, P) ==
    /\ r % P = 0
    /\ r >= x /\ r - x <= P - 1
    /\ \A m \in x .. (r - 1) : m % P # 0
    /\ \A k \in 1 .. (x \div P) :
          /\ x = k * P => r = k * P
          /\ x = k * P + 1 => r = (k + 1) * P

\* C12, as amended: for every page size P that is a power of two and every
\* x with 0 <= x <= MaxInt - (P - 1), roundToPageSize(x) is the least
\* multiple of P that is >= x: a multiple of P, with result - x in
\* [0, P-1], roundUp(kP) = kP and roundUp(kP + 1) = (k+1)P for k >= 1; and
\* TestRoundPage's two expectations hold.
C12_RoundUp ==
    /\ (ret.op = "roundToPageSize" /\ ret.arg <= MaxInt - (pageSize - 1)) =>
            IsRoundUp(ret.arg, ret.out, pageSize)
    /\ ret.op = "TestRoundPage" =>
            ret.out = <<pageSize, 2 * pageSize>>

\* C12, as stated: for every x >= 0 roundToPageSize(x) is the least multiple
\* of P that is >= x.
C12_RoundUpEveryLength ==
    ret.op = "roundToPageSize" => IsRoundUp(ret.arg, ret.out, pageSize)

\* roundUp(kP + 1) = (k+1)P with k >= 1 and P > 2 has been computed.
C12_Witness ==
    /\ ret.op = "roundToPageSize"
    /\ pageSize > 2
    /\ ret.arg > pageSize /\ ret.arg % pageSize = 1
    /\ ret.out = ret.arg + pageSize - 1

\* C13: every unrecoverable condition wipes the live buffers before the
\* process ends.  When the process has stopped on a failed Alloc, Lock,
\* Unlock, Protect or Free, a failed CSPRNG or a canary mismatch, no
\* container is left live and none is left in the registry: each has been
\* destroyed, its data zeroed.
C13_FatalWipesAll ==
    vm.panic \in Unrecoverable =>
        /\ \A i \in Bufs : containers[i].destroyed
        /\ allLockedBuffers = <<>>

\* The process has stopped on a failed Alloc while a buffer holding
\* non-zero bytes is live.
C13_Witness ==
    /\ vm.panic = "memcall.Alloc"
    /\ \E i \in Bufs :
          ~containers[i].destroyed /\ ~AllZero(Data(vm, containers[i]))

\* The SafePanic calls in progress on a thread.
SafePanics(t) == {d \in 1 .. Depth(t) : threads[t][d].op = "SafePanic"}

\* C14: the SafePanic path started from inside Destroy terminates.  A thread
\* inside SafePanic never comes to wait for a container's mutex that it
\* holds itself (a wait that nothing ends, since only the waiting thread
\* could release it), and never enters SafePanic a second time.
C14_SafePanicTerminates ==
    \A t \in Threads :
        SafePanics(t) # {} =>
            /\ ~(At(t, "Destroy", "lock") /\ containers[Top(t).b].mu = t)
            /\ Cardinality(SafePanics(t)) = 1

\* Destroy has found the canary slot overwritten and called SafePanic, the
\* container's mutex held and the container still registered.
C14_Witness ==
    \E t \in Threads :
        /\ At(t, "SafePanic", "destroyall")
        /\ containers[Top(t).b].mu = t
        /\ InSeq(Top(t).b, allLockedBuffers)

\* Thread t waits for a mutex that another thread holds.
WaitsForRegistry(t) ==
    ~IsIdle(t) /\ Top(t).pc \in RegistryWaits /\ allLockedBuffersMutex # 0

WaitsForBuffer(t) ==
    At(t, "Destroy", "lock") /\ ~MuFree(containers[Top(t).b])

HeldBy(t) == {i \in Bufs : containers[i].mu = t}

\* C15: lock discipline and freedom from deadlock.  In every interleaving
\* of New, Trim, Copy, MarkAsReadOnly, Destroy and DestroyAll no thread
\* takes the registry's mutex while it holds a container's mutex, no thread
\* holds the registry's mutex and a container's mutex together, and the
\* threads are never all waiting for mutexes.
C15_LockDiscipline ==
    /\ \A t \in Threads :
          /\ (~IsIdle(t) /\ Top(t).pc \in RegistryWaits) => HeldBy(t) = {}
          /\ allLockedBuffersMutex = t => HeldBy(t) = {}
    /\ ~(\A t \in Threads : WaitsForRegistry(t) \/ WaitsForBuffer(t))

\* One thread is inside the registry's critical section while the other is
\* in the middle of a teardown, its container's mutex held.
C15_Witness ==
    \E t1, t2 \in Threads :
        /\ allLockedBuffersMutex = t1
        /\ At(t2, "Destroy", "body")
        /\ Len(Top(t2).todo) < 5
        /\ HeldBy(t2) # {}

\* The containers that are not destroyed.
Live(cs) == {i \in 1 .. Len(cs) : ~cs[i].destroyed}

\* C16: the registry is exactly the set of live buffers between calls.
\* After every call that returned, the registry lists each live container
\* once and no destroyed one; New, NewFromBytes and Trim that succeed add
\* the container they return and nothing else; after Destroy the container
\* is absent, and a Destroy of a container already destroyed (whose entry
\* is already gone) leaves the registry as it was and issues no memory
\* operation; DestroyAll runs one teardown body for each container that
\* was live and none for the others.
C16_RegistryIsLiveSet ==
    [][vm'.panic = "" =>
        /\ \A k, l \in 1 .. Len(allLockedBuffers') :
              allLockedBuffers'[k] = allLockedBuffers'[l] => k = l
        /\ {allLockedBuffers'[k] : k \in 1 .. Len(allLockedBuffers')}
              = Live(containers')
        /\ (ret'.op \in {"New", "NewFromBytes", "Trim"} /\ ret'.err = ErrNone) =>
              allLockedBuffers' = Append(allLockedBuffers, ret'.b)
        /\ (ret'.op \in {"New", "NewFromBytes", "Trim"} /\ ret'.err # ErrNone) =>
              allLockedBuffers' = allLockedBuffers
        /\ ret'.op = "Destroy" =>
              /\ ~InSeq(ret'.b, allLockedBuffers')
              /\ \A i \in Bufs \ {ret'.b} :
                    InSeq(i, allLockedBuffers') = InSeq(i, allLockedBuffers)
              /\ containers[ret'.b].destroyed =>
                    allLockedBuffers' = allLockedBuffers /\ vm'.calls = <<>>
        /\ ret'.op = "DestroyAll" =>
              Len(vm'.calls) = Len(TeardownBody) * Cardinality(Live(containers))]_vars

\* The second of two buffers was destroyed, and then destroyed again, while
\* the first is live and registered.
C16_Witness ==
    /\ ret.op = "Destroy"
    /\ ret.b = 2
    /\ vm.calls = <<>>
    /\ containers[2].destroyed
    /\ allLockedBuffers = <<1>>

\* C17: the read-only flag matches the protection of the pages.  Between
\* calls, every live container has its inner pages READ-only if its flag is
\* set and READ+WRITE if it is not, and its front and rear guard pages
\* NONE.  MarkAsReadOnly on a read-only buffer and MarkAsReadWrite on a
\* writable one issue no memory operation and change nothing; the other
\* way round they issue one Protect and flip the flag.
C17_FlagMatchesProtection ==
    [][vm'.panic = "" =>
        /\ \A i \in Live(containers') :
              LET b == containers'[i]
                  memory == getAllMemory(b)
              IN  /\ \A p \in PagesOf(InnerPages(b)) :
                        vm'.prot[p] = IF b.readOnly THEN "R" ELSE "RW"
                  /\ vm'.prot[FirstPage(memory)] = "NONE"
                  /\ vm'.prot[LastPage(memory)] = "NONE"
                  /\ PagesOf(InnerPages(b))
                        = (FirstPage(memory) + 1) .. (LastPage(memory) - 1)
        /\ (ret'.op \in {"MarkAsReadOnly", "MarkAsReadWrite"}
                /\ ~containers[ret'.b].destroyed) =>
              LET was == containers[ret'.b].readOnly
                  wanted == ret'.op = "MarkAsReadOnly"
              IN  /\ ret'.err = ErrNone
                  /\ containers'[ret'.b].readOnly = wanted
                  /\ IF was = wanted
                     THEN /\ vm'.calls = <<>>
                          /\ containers' = containers
                          /\ vm'.prot = vm.prot /\ vm'.mem = vm.mem
                     ELSE /\ Len(vm'.calls) = 1
                          /\ vm'.calls[1][1] = "Protect"]_vars

\* MarkAsReadOnly has just been called on a buffer that was read-only
\* already, while another live buffer is writable.
C17_Witness ==
    /\ ret.op = "MarkAsReadOnly"
    /\ vm.calls = <<>>
    /\ ~containers[ret.b].destroyed /\ containers[ret.b].readOnly
    /\ \E i \in Live(containers) : ~containers[i].readOnly

\* C19: getAllMemory recovers exactly the region Create allocated.  For
\* every live buffer of n >= 1 bytes, getAllMemory's slice starts at
\* addr(data[0]) - (roundUp(n + 32) - n) - P and is 2P + roundUp(n + 32) long;
\* its pages are the pages that were mapped when the buffer was created;
\* its first and last page are the guards (NONE), the pages between are
\* accessible and locked; data ends where the rear guard begins; the
\* 32-byte slot ends where data begins and starts at or after the end of
\* the front guard.
C19_RegionRecovered ==
    [][\A j \in 1 .. Len(containers') :
          ~containers'[j].destroyed =>
             LET b == containers'[j]
                 n == b.buffer.len
                 rounded == CeilTo(n + CanaryLen, pageSize)
                 memory == getAllMemory(b)
                 slot == CanarySlot(b)
                 first == memory.addr \div pageSize
                 last == (memory.addr + memory.len) \div pageSize - 1
             IN  /\ n >= 1
                 /\ memory.addr = b.buffer.addr - (rounded - n) - pageSize
                 /\ memory.len = 2 * pageSize + rounded
                 /\ memory.addr % pageSize = 0
                 /\ \A p \in first .. last : p \in Pages
                 /\ vm'.prot[first] = "NONE" /\ vm'.prot[last] = "NONE"
                 /\ \A p \in (first + 1) .. (last - 1) :
                        vm'.prot[p] \in {"R", "RW"} /\ p \in vm'.locked
                 /\ b.buffer.addr + n = memory.addr + memory.len - pageSize
                 /\ slot.addr + slot.len = b.buffer.addr
                 /\ slot.len = CanaryLen
                 /\ slot.addr >= memory.addr + pageSize
                 /\ j > Len(containers) =>
                        {p \in Pages : vm.prot[p] = "unmapped"
                                        /\ vm'.prot[p] # "unmapped"}
                        = first .. last]_vars

\* Trim has just returned a buffer whose slot begins right at the end of
\* the front guard (n + 32 a multiple of P), beside its live source.
C19_Witness ==
    /\ vm.panic = ""
    /\ \E i \in Bufs, j \in Bufs :
          /\ ~containers[i].destroyed /\ ~containers[j].destroyed
          /\ ret.op = "Trim" /\ ret.b = j /\ ret.err = ErrNone
          /\ i # j /\ ret.arg[1] = i
          /\ containers[j].buffer.len = pageSize
          /\ CanarySlot(containers[j]).addr = getAllMemory(containers[j]).addr + pageSize

\* The positions in a step's platform calls of the calls named `call`.
CallsOf(calls, call) == {k \in 1 .. Len(calls) : calls[k][1] = call}

\* The calls of a step that write memory and reach into slice s.
WritesInto(calls, s) ==
    {k \in 1 .. Len(calls) :
        /\ calls[k][1] \in {"fillRandBytes", "copy", "wipeBytes"}
        /\ calls[k][2] < s.addr + s.len
        /\ s.addr < calls[k][2] + calls[k][3]}

\* C20: canary initialisation ends in one fixed state and writes K only while
\* writable.  Once createCanary has returned, in either step order: the
\* slice it returned is the last 32 bytes of the inner pages, the pages
\* before and after the inner pages are NONE, the inner pages are locked
\* and READ-only, and the bytes are the CSPRNG's.  In the initialising step
\* the one fill is of that slice, succeeds, and comes before the one
\* Protect(inner, READ), which is the last call.  No later step changes the
\* slice or its bytes, calls a write that reaches them, or fills random
\* bytes again.
C20_CanaryFixedState ==
    [][LET slice == canary'
           rounded == CeilTo(CanaryLen, pageSize)
           innerEnd == slice.addr + slice.len
           innerStart == innerEnd - rounded
           front == (innerStart \div pageSize) - 1
           rear == innerEnd \div pageSize
           calls == vm'.calls
       IN  /\ slice.len > 0 =>
                /\ slice.len = CanaryLen
                /\ innerEnd % pageSize = 0
                /\ front \in Pages /\ rear \in Pages
                /\ vm'.prot[front] = "NONE" /\ vm'.prot[rear] = "NONE"
                /\ \A p \in (front + 1) .. (rear - 1) :
                      vm'.prot[p] = "R" /\ p \in vm'.locked
                /\ \E seed \in CanarySeeds : Bytes(vm', slice) = CanaryValue(seed)
           /\ (canary.len = 0 /\ slice.len > 0) =>
                /\ vm'.panic = ""
                /\ {p \in Pages : vm'.prot[p] # "unmapped"} = front .. rear
                /\ \E f \in 1 .. Len(calls) :
                      /\ CallsOf(calls, "fillRandBytes") = {f}
                      /\ WritesInto(calls, slice) = {f}
                      /\ calls[f][2] = slice.addr /\ calls[f][3] = slice.len
                      /\ CallsOf(calls, "Lock") # {}
                      /\ \A k \in CallsOf(calls, "Lock") : k < f
                      /\ \A k \in CallsOf(calls, "Protect") :
                            IF calls[k][4] = "R"
                            THEN /\ k > f /\ k = Len(calls)
                                 /\ calls[k][2] = innerStart
                                 /\ calls[k][3] = rounded
                            ELSE k < f /\ calls[k][4] = "NONE"
                      /\ calls[Len(calls)][1] = "Protect"
                      /\ calls[Len(calls)][4] = "R"
           /\ canary.len > 0 =>
                /\ canary' = canary
                /\ Bytes(vm', canary) = Bytes(vm, canary)
                /\ ret'.op # "idle" =>
                      /\ CallsOf(calls, "fillRandBytes") = {}
                      /\ WritesInto(calls, canary) = {}]_vars

\* createCanary of src/unnamed/part_000 (guards made inaccessible before
\* the Lock) has returned on a page larger than the canary.
C20_Witness ==
    /\ ret.op = "init" /\ canary.len > 0 /\ vm.panic = ""
    /\ pageSize > CanaryLen
    /\ Len(vm.calls) = 6
    /\ vm.calls[2][1] = "Protect" /\ vm.calls[4][1] = "Lock"

\* The step thread t is about to take in a teardown body.
TeardownStep(t) ==
    IF At(t, "Destroy", "body") /\ Top(t).todo # <<>>
    THEN Head(Top(t).todo).call
    ELSE "none"

\* C18: zeroisation precedes release.  In every Destroy, of a writable or a
\* read-only buffer: when a wipe is about to write, the inner pages are
\* READ+WRITE; when Unlock is about to be called, the canary slot and all
\* the data bytes are zero and the inner pages still locked; when Free is
\* about to be called, every page of the region, guard pages included, is
\* READ+WRITE, and Free is the last step of the body; and whenever a page
\* is unmapped, all its bytes are zero.
C18_ZeroBeforeRelease ==
    [][/\ \A t \in Threads :
            (Steps(t) /\ TeardownStep(t) # "none") =>
                LET b == containers[Top(t).b]
                    step == TeardownStep(t)
                IN  /\ step = "wipeBytes" =>
                          \A p \in PagesOf(InnerPages(b)) : vm.prot[p] = "RW"
                    /\ step = "Unlock" =>
                          /\ AllZero(SlotBytes(vm, b))
                          /\ AllZero(Data(vm, b)) /\ Len(Data(vm, b)) = b.buffer.len
                          /\ PagesOf(InnerPages(b)) \subseteq vm.locked
                    /\ step = "Free" =>
                          /\ \A p \in PagesOf(getAllMemory(b)) : vm.prot[p] = "RW"
                          /\ Len(Top(t).todo) = 1
                          /\ PagesOf(InnerPages(b)) \cap vm.locked = {}
                          /\ vm'.panic = ""
                          /\ \A p \in PagesOf(getAllMemory(b)) :
                                vm'.prot[p] = "unmapped"
       /\ \A p \in Pages :
            (vm.prot[p] # "unmapped" /\ vm'.prot[p] = "unmapped") =>
                \A a \in (p * pageSize) .. ((p + 1) * pageSize - 1) :
                    vm.mem[a] = 0 /\ vm'.mem[a] = 0]_vars

\* The teardown of a read-only buffer whose data holds non-zero bytes has
\* set the inner pages READ+WRITE, found the canary whole, and is about to
\* wipe.
C18_Witness ==
    \E t \in Threads :
        /\ TeardownStep(t) = "wipeBytes"
        /\ Len(Top(t).todo) = 5
        /\ containers[Top(t).b].readOnly
        /\ ~AllZero(Data(vm, containers[Top(t).b]))

====
